---- MODULE Spec2Model ----
(***************************************************************************)
(* Verification model of CodeReliabilityScanner: the issue grouper and the *)
(* per-file fix dispatch (issue_processor.py, file_processor.py), the      *)
(* rate limiter (resource_manager.py), the retried ask_question call       *)
(* (aider_interrogator.py), the stdout/stdin loop of one child session     *)
(* (aider_interrogator.py, aider_runner.py) and the batch run over the     *)
(* selected files (agent_v2.py, file_processor.py, git_manager.py).        *)
(*                                                                         *)
(* Text is modelled as a sequence of one-character strings, so that        *)
(* substring tests, str.split, str.strip and str.join are computed the way *)
(* Python computes them.                                                   *)
(***************************************************************************)
EXTENDS Integers, Sequences, FiniteSets, TLC

VARIABLES
    \* ---- file processing / issue grouping ----
    pc,            \* position of the issue-processing call
    enable_black,  \* config.enable_black
    issues,        \* the linter's issue lines for the file (list of texts)
    op,            \* which operation consumed the issue list
    strategy,      \* branch taken by FileProcessor._process_issues
    grouped,       \* the dict built by the grouping function, in insertion order
    window_size,   \* window_size argument of the sliding-window call (0: none)
    aider_calls,   \* fix_request argument of every run_aider call, in call order
    commits,       \* commits made by the operation, in order
    \* ---- rate limiter ----
    now,           \* datetime.now(), in seconds
    api_rate_limit,\* config.api_rate_limit
    api_calls,     \* ResourceManager.api_calls
    temp_files,    \* ResourceManager.temp_files: the registered paths
    disk,          \* the temp files that exist on disk, with their mtime
    rate_log,      \* history: every direct check_rate_limit call, its time and result
    \* ---- ask_question under the retry wrapper ----
    ask_pc,        \* position inside the decorated ask_question call
    attempt,       \* tenacity's attempt number of the running attempt
    effects,       \* history: per attempt, the effects of the body in order
    raised,        \* exception the current/last attempt's body raised, or "none"
    result,        \* what left the decorated call
    asks,          \* number of ask_question calls started so far
    plan,          \* what the child session does on each attempt, if it is run
    temp_file_path,\* the temp file of the running attempt (<<>>: none)
    \* ---- one child session: the stdout/stdin loop ----
    sess_pc,       \* position of the session: at the loop, leaving the `with`
                   \* block, returned, raised or blocked for ever
    session,       \* which loop runs: "ask" (_process_aider_output) or "fix" (run_aider)
    child,         \* the child process: what it prints and how it behaves
    elapsed,       \* time.time() - start_time, in seconds
    reads,         \* history: what every stdout.readline() returned and how long it took
    capture_output,\* the capture flag of _process_aider_output
    response,      \* the response text captured so far
    stdin,         \* the child's stdin pipe: buffered and flushed writes
    signals,       \* history: signals sent to the child, in order
    sess_result,   \* what left the session: a return value or an exception
    \* ---- Agent.run and FileProcessor.process_file ----
    run_pc,        \* position inside Agent.run / process_file
    config,        \* config.autopep8_fix and config.enable_black of the run
    file_no,       \* index of the selected file being processed
    gate,          \* what the test command yields for this file before / after the commit
    file_issues,   \* the issues the linter returned for this file
    dirty,         \* git status --porcelain <file> is non-empty
    trace,         \* history: the steps of the current process_file call, in order
    exit_status,   \* exit status of the orchestrator process (-1: still running)
    \* ---- ResourceManager: the monitor thread ----
    monitoring,    \* ResourceManager.monitoring, the flag the monitor loop tests
    monitor_threads, \* every thread start_monitoring started, in order, and its state
    \* ---- child processes of one AiderInterrogator ----
    spawns,        \* history: every Popen of an assistant child, with its instant
    \* ---- the file loop of Agent.run ----
    listed,        \* history: the candidate files as listed, before any filter
    python_files,  \* the local python_files of Agent.run
    cursor,        \* number of candidates the loop has dealt with
    processed,     \* history: the candidates process_file was called for, in order
    limits,        \* config.line_count_min and config.line_count_max
    \* ---- the threads that call into one ResourceManager ----
    threads,       \* per thread: position inside the running call and its locals
    cleanup_log    \* history: every unlink attempted and every cleanup error logged

grpVars  == <<pc, enable_black, issues, op, strategy, grouped, window_size,
              aider_calls, commits>>
rateVars == <<now, api_rate_limit, api_calls, temp_files, disk, rate_log,
              monitoring, monitor_threads>>
askVars  == <<ask_pc, attempt, effects, raised, result, asks, plan, temp_file_path,
              spawns>>
sessVars == <<sess_pc, session, child, elapsed, reads, capture_output, response,
              stdin, signals, sess_result>>
runVars  == <<run_pc, config, file_no, gate, file_issues, dirty, trace, exit_status>>
selVars  == <<listed, python_files, cursor, processed, limits>>
thrVars  == <<threads, cleanup_log>>
vars     == <<grpVars, rateVars, askVars, sessVars, runVars, selVars, thrVars>>

----------------------------------------------------------------------------
(* Bounds of the model *)

MaxShort  == 3   \* every issue list up to this length is explored
MaxIssues == 11  \* longest issue list explored (patterned lists)
MaxWindow == 3   \* largest sliding-window size explored
MaxLimit  == 2   \* largest configured api_rate_limit explored
MaxCalls  == 4   \* check_rate_limit calls explored by the rate-limiter specification
MaxTime   == 93  \* last instant (seconds) explored by the rate-limiter specification
MaxAsks   == 2   \* ask_question calls made on one interrogator
QuickSecs == 1   \* seconds taken by a session that ends by itself

\* no child process
NoChild == [script |-> <<>>, ending |-> "exit", on_terminate |-> "exits",
            on_close |-> "exits", grandchild |-> FALSE, stderr |-> "fits",
            status |-> 0]

\* e is an element of the sequence row
Has(row, e) == \E i \in 1..Len(row) : row[i] = e

\* a thread that is not inside a ResourceManager call
Idle == [pc |-> "idle", current_time |-> 0, todo |-> {}, temp_file |-> <<>>,
         kept |-> <<>>]

\* the main thread and the monitor thread, both outside any call
NoThreads == [main |-> Idle, monitor |-> Idle]

\* a pipe nothing was written to
EmptyPipe == [buffer |-> <<>>, sent |-> <<>>]

\* no exception
NoError == [type |-> "none", cause |-> "none"]

----------------------------------------------------------------------------
(* Text helpers: Python str operations on character sequences *)

\* `sub in s`
Contains(s, sub) ==
    \E i \in 0..(Len(s) - Len(sub)) : SubSeq(s, i + 1, i + Len(sub)) = sub

\* any(x in s for x in subs)
ContainsAny(s, subs) == \E x \in subs : Contains(s, x)

\* index of the first occurrence of character c in s, 0 if none
FirstIndex(s, c) ==
    IF \E i \in 1..Len(s) : s[i] = c
    THEN CHOOSE i \in 1..Len(s) : s[i] = c /\ \A j \in 1..(i - 1) : s[j] # c
    ELSE 0

\* s.split(c): always at least one field
RECURSIVE Split(_, _)
Split(s, c) ==
    LET i == FirstIndex(s, c) IN
    IF i = 0 THEN <<s>>
    ELSE <<SubSeq(s, 1, i - 1)>> \o Split(SubSeq(s, i + 1, Len(s)), c)

Whitespace == {" ", "\t", "\n", "\r"}

\* s.strip()
RECURSIVE Strip(_)
Strip(s) ==
    IF s = <<>> THEN s
    ELSE IF s[1] \in Whitespace THEN Strip(Tail(s))
    ELSE IF s[Len(s)] \in Whitespace THEN Strip(SubSeq(s, 1, Len(s) - 1))
    ELSE s

\* sep.join(lines)
RECURSIVE Join(_, _)
Join(lines, sep) ==
    IF lines = <<>> THEN <<>>
    ELSE IF Len(lines) = 1 THEN lines[1]
    ELSE lines[1] \o <<sep>> \o Join(Tail(lines), sep)

\* concatenation of a list of lists
RECURSIVE Flatten(_)
Flatten(ss) == IF ss = <<>> THEN <<>> ELSE ss[1] \o Flatten(Tail(ss))

----------------------------------------------------------------------------
(* Issue lines: the linter collaborator's output, one text per finding *)

L1 == <<"a", ":", "1", ":", "f", ":", "R", "0", "9", "1", "2">>                \* "a:1:f:R0912"
L2 == <<"a", ":", "2", ":", " ", "f", " ", ":", "u", "n", "u", "s", "e", "d", "-",
        "r", "e", "t", "u", "r", "n">>                                         \* "a:2: f :unused-return"
L3 == <<"a", ":", "3", ":", "g", ":", "e", "x", "c", "e", "p", "t", "i", "o", "n">> \* "a:3:g:exception"
L4 == <<"t", "o", "o", "-", "m", "a", "n", "y">>                               \* "too-many"
L5 == <<"b", ":", "m", "i", "s", "s", "i", "n", "g", "-", "R", "1", "0">>      \* "b:missing-R10"
L6 == <<"a", ":", "4", ":", ":", "x">>                                         \* "a:4::x"
L7 == <<"r", "e", "t", "u", "r", "n">>                                         \* "return"

IssueLines == <<L1, L2, L3, L4, L5, L6, L7>>

\* every list of at most n issue lines
ListsUpTo(n) ==
    UNION {[1..k -> {IssueLines[i] : i \in 1..Len(IssueLines)}] : k \in 0..n}

\* the list of n lines that starts at line a and steps through IssueLines by s
Patterned(n, a, s) ==
    [i \in 1..n |-> IssueLines[((a + (i - 1) * s) % Len(IssueLines)) + 1]]

\* the issue lists the linter may return in the model
IssueLists ==
    ListsUpTo(MaxShort)
    \cup {Patterned(n, a, s) : n \in 0..MaxIssues,
                               a \in 0..(Len(IssueLines) - 1),
                               s \in 0..(Len(IssueLines) - 1)}

----------------------------------------------------------------------------
(* IssueProcessor: grouping *)

TooMany       == <<"t", "o", "o", "-", "m", "a", "n", "y">>
R09           == <<"R", "0", "9">>
R10           == <<"R", "1", "0">>
Missing       == <<"m", "i", "s", "s", "i", "n", "g", "-">>
Unused        == <<"u", "n", "u", "s", "e", "d", "-">>
Pointless     == <<"p", "o", "i", "n", "t", "l", "e", "s", "s", "-">>
ExceptionWord == <<"e", "x", "c", "e", "p", "t", "i", "o", "n">>
ReturnWord    == <<"r", "e", "t", "u", "r", "n">>

ComplexityMarkers == {TooMany, R09, R10}
StyleMarkers      == {Missing, Unused, Pointless}

IsComplexity(issue)    == ContainsAny(issue, ComplexityMarkers)
IsStyle(issue)         == ContainsAny(issue, StyleMarkers)
IsErrorHandling(issue) == Contains(issue, ExceptionWord) \/ Contains(issue, ReturnWord)

\* faulty variant: the chain with the style test moved before the complexity test
CategoryStyleFirst(issue) ==
    IF IsStyle(issue) THEN "style"
    ELSE IF IsComplexity(issue) THEN "complexity"
    ELSE IF IsErrorHandling(issue) THEN "error_handling"
    ELSE "other"

\* the if/elif chain of group_issues_by_type
Category(issue) ==
    IF IsComplexity(issue) THEN "complexity"
    ELSE IF IsStyle(issue) THEN "style"
    ELSE IF IsErrorHandling(issue) THEN "error_handling"
    ELSE "other"

\* the dict literal group_issues_by_type starts from, in insertion order
EmptyTypeGroups ==
    << [key |-> "complexity",     members |-> <<>>],
       [key |-> "style",          members |-> <<>>],
       [key |-> "error_handling", members |-> <<>>],
       [key |-> "other",          members |-> <<>>] >>

HasKey(g, k) == \E i \in 1..Len(g) : g[i].key = k

\* g[k].append(issue)
AppendTo(g, k, issue) ==
    [i \in 1..Len(g) |->
        IF g[i].key = k THEN [g[i] EXCEPT !.members = Append(@, issue)] ELSE g[i]]

RECURSIVE GroupByTypeLoop(_, _)
GroupByTypeLoop(g, rest) ==
    IF rest = <<>> THEN g
    ELSE GroupByTypeLoop(AppendTo(g, Category(rest[1]), rest[1]), Tail(rest))

group_issues_by_type(iss) == GroupByTypeLoop(EmptyTypeGroups, iss)

Colon == ":"

\* faulty variant: an issue without a third field is filed under the empty key
ByFunctionStepMerging(g, issue) ==
    LET parts == Split(issue, Colon)
        func_name == IF Len(parts) > 2 THEN Strip(parts[3]) ELSE <<>>
        g1 == IF HasKey(g, func_name) THEN g
              ELSE Append(g, [key |-> func_name, members |-> <<>>])
    IN AppendTo(g1, func_name, issue)

\* one iteration of the loop of group_issues_by_function
ByFunctionStep(g, issue) ==
    LET parts == Split(issue, Colon) IN
    IF Len(parts) > 2
    THEN LET func_name == Strip(parts[3])
             g1 == IF HasKey(g, func_name) THEN g
                   ELSE Append(g, [key |-> func_name, members |-> <<>>])
         IN AppendTo(g1, func_name, issue)
    ELSE g

RECURSIVE GroupByFunctionLoop(_, _)
GroupByFunctionLoop(g, rest) ==
    IF rest = <<>> THEN g
    ELSE GroupByFunctionLoop(ByFunctionStep(g, rest[1]), Tail(rest))

group_issues_by_function(iss) == GroupByFunctionLoop(<<>>, iss)

----------------------------------------------------------------------------
(* IssueProcessor: the three fix strategies.  Each run_aider call is       *)
(* recorded by its fix_request: the f-string's literal part, the key put   *)
(* into it, and the joined issue lines.                                    *)

Newline == "\n"

Message(template, key, lines) ==
    [template |-> template, key |-> key, body |-> Join(lines, Newline)]

\* the run_aider calls of IssueProcessor.process_issues
RECURSIVE TypeCalls(_)
TypeCalls(g) ==
    IF g = <<>> THEN <<>>
    ELSE (IF g[1].members # <<>>
          THEN <<Message("Refactor to address {issue_type} issues: ",
                         g[1].key, g[1].members)>>
          ELSE <<>>)
         \o TypeCalls(Tail(g))

\* the run_aider calls of IssueProcessor.process_issues_by_function
RECURSIVE FunctionCalls(_)
FunctionCalls(g) ==
    IF g = <<>> THEN <<>>
    ELSE <<Message("Refactor function {func} to address: ", g[1].key, g[1].members)>>
         \o FunctionCalls(Tail(g))

Min(a, b) == IF a < b THEN a ELSE b

\* faulty variant: the loop stops before a last, shorter window
RECURSIVE WindowLoopFullOnly(_, _, _)
WindowLoopFullOnly(iss, i, w) ==
    IF i + w > Len(iss) THEN <<>>
    ELSE <<SubSeq(iss, i + 1, i + w)>> \o WindowLoopFullOnly(iss, i + w, w)

\* for i in range(i, len(issues), window_size): issues[i : i + window_size]
RECURSIVE WindowLoop(_, _, _)
WindowLoop(iss, i, w) ==
    IF i >= Len(iss) THEN <<>>
    ELSE <<SubSeq(iss, i + 1, Min(i + w, Len(iss)))>> \o WindowLoop(iss, i + w, w)

\* the run_aider calls of process_issues_with_sliding_window
RECURSIVE WindowCalls(_)
WindowCalls(ws) ==
    IF ws = <<>> THEN <<>>
    ELSE <<Message("Address the following issues:\n", <<>>, ws[1])>>
         \o WindowCalls(Tail(ws))

DefaultWindowSize == 5

WindowSizes == (1..MaxWindow) \cup {DefaultWindowSize}

----------------------------------------------------------------------------
(* FileProcessor._process_issues: the choice of strategy *)

ByTypeAbove     == 10
ByFunctionAbove == 5

\* faulty variant: the boundaries moved by one
BranchesInclusive(n) ==
    IF n >= ByTypeAbove THEN <<"by_type">>
    ELSE IF n >= ByFunctionAbove THEN <<"by_function">>
    ELSE <<"single">>

\* the if / elif / else on len(issues): the branches executed, in order
Branches(n) ==
    IF n > ByTypeAbove THEN <<"by_type">>
    ELSE IF n > ByFunctionAbove THEN <<"by_function">>
    ELSE <<"single">>

\* the run_aider calls made by one branch
BranchCalls(b, iss) ==
    CASE b = "by_type"     -> TypeCalls(group_issues_by_type(iss))
      [] b = "by_function" -> FunctionCalls(group_issues_by_function(iss))
      [] b = "single"      -> <<Message("Address the following issues: ", <<>>, iss)>>

RECURSIVE AllBranchCalls(_, _)
AllBranchCalls(bs, iss) ==
    IF bs = <<>> THEN <<>>
    ELSE BranchCalls(bs[1], iss) \o AllBranchCalls(Tail(bs), iss)

\* outcome of run_black: the formatter ran and its change was committed, it
\* ran and left nothing to commit (or the commit failed), or it failed
BlackOutcomes == {"committed", "nothing", "failed"}

----------------------------------------------------------------------------
(* Actions of the issue-processing specification *)

\* LinterRunner.run_linter returns the issue lines of the file
RunLinter(l) ==
    /\ pc = "start"
    /\ pc' = "linted"
    /\ issues' = l
    /\ UNCHANGED <<enable_black, op, strategy, grouped, window_size, aider_calls, commits>>
    /\ UNCHANGED <<rateVars, askVars, sessVars, runVars>>
    /\ UNCHANGED <<selVars, thrVars>>

\* FileProcessor._process_issues, called by process_file when issues is non-empty
FileProcessIssues(black) ==
    /\ pc = "linted"
    /\ issues # <<>>
    /\ pc' = "done"
    /\ op' = "_process_issues"
    /\ strategy' = Branches(Len(issues))
    /\ grouped' = <<>>
    /\ aider_calls' = aider_calls \o AllBranchCalls(Branches(Len(issues)), issues)
    /\ commits' = IF enable_black /\ black = "committed"
                  THEN Append(commits, "black") ELSE commits
    /\ UNCHANGED <<enable_black, issues, window_size>>
    /\ UNCHANGED <<rateVars, askVars, sessVars, runVars>>
    /\ UNCHANGED <<selVars, thrVars>>

\* IssueProcessor.process_issues
process_issues ==
    /\ pc = "linted"
    /\ pc' = "done"
    /\ op' = "process_issues"
    /\ grouped' = group_issues_by_type(issues)
    /\ aider_calls' = aider_calls \o TypeCalls(group_issues_by_type(issues))
    /\ UNCHANGED <<enable_black, issues, strategy, window_size, commits>>
    /\ UNCHANGED <<rateVars, askVars, sessVars, runVars>>
    /\ UNCHANGED <<selVars, thrVars>>

\* IssueProcessor.process_issues_by_function
process_issues_by_function ==
    /\ pc = "linted"
    /\ pc' = "done"
    /\ op' = "process_issues_by_function"
    /\ grouped' = group_issues_by_function(issues)
    /\ aider_calls' = aider_calls \o FunctionCalls(group_issues_by_function(issues))
    /\ UNCHANGED <<enable_black, issues, strategy, window_size, commits>>
    /\ UNCHANGED <<rateVars, askVars, sessVars, runVars>>
    /\ UNCHANGED <<selVars, thrVars>>

\* IssueProcessor.process_issues_with_sliding_window
process_issues_with_sliding_window(w) ==
    /\ pc = "linted"
    /\ pc' = "done"
    /\ op' = "process_issues_with_sliding_window"
    /\ window_size' = w
    /\ aider_calls' = aider_calls \o WindowCalls(WindowLoop(issues, 0, w))
    /\ UNCHANGED <<enable_black, issues, strategy, grouped, commits>>
    /\ UNCHANGED <<rateVars, askVars, sessVars, runVars>>
    /\ UNCHANGED <<selVars, thrVars>>

\* the issue-processing specification starts before the linter has run; the
\* resource manager and the interrogator are not used by it
Init ==
    /\ pc = "start"
    /\ enable_black \in BOOLEAN
    /\ issues = <<>>
    /\ op = "none"
    /\ strategy = <<>>
    /\ grouped = <<>>
    /\ window_size = 0
    /\ aider_calls = <<>>
    /\ commits = <<>>
    /\ now = 0
    /\ api_rate_limit = 1
    /\ api_calls = <<>>
    /\ temp_files = {}
    /\ disk = <<>>
    /\ rate_log = <<>>
    /\ ask_pc = "idle"
    /\ attempt = 0
    /\ effects = <<>>
    /\ raised = NoError
    /\ result = [kind |-> "none"]
    /\ asks = 0
    /\ plan = <<>>
    /\ temp_file_path = <<>>
    /\ sess_pc = "idle"
    /\ session = "none"
    /\ child = NoChild
    /\ elapsed = 0
    /\ reads = <<>>
    /\ capture_output = FALSE
    /\ response = <<>>
    /\ stdin = EmptyPipe
    /\ signals = <<>>
    /\ sess_result = [kind |-> "none"]
    /\ run_pc = "idle"
    /\ config = [autopep8_fix |-> FALSE, enable_black |-> FALSE]
    /\ file_no = 0
    /\ gate = [pre |-> TRUE, post |-> TRUE]
    /\ file_issues = <<>>
    /\ dirty = FALSE
    /\ trace = <<>>
    /\ exit_status = -1
    /\ monitoring = FALSE
    /\ monitor_threads = <<>>
    /\ spawns = <<>>
    /\ listed = <<>>
    /\ python_files = <<>>
    /\ cursor = 0
    /\ processed = <<>>
    /\ limits = [line_count_min |-> 1, line_count_max |-> 2]
    /\ threads = NoThreads
    /\ cleanup_log = <<>>

Next ==
    \/ \E l \in IssueLists : RunLinter(l)
    \/ \E black \in BlackOutcomes : FileProcessIssues(black)
    \/ process_issues
    \/ process_issues_by_function
    \/ \E w \in WindowSizes : process_issues_with_sliding_window(w)

Spec == Init /\ [][Next]_vars

----------------------------------------------------------------------------
(* Claims about the issue grouper and the strategy choice (under Spec) *)

\* the issue lines a fix request carries: its body split at the line breaks
LinesOf(call) == Split(call.body, Newline)

RECURSIVE LinesOfAll(_)
LinesOfAll(calls) ==
    IF calls = <<>> THEN <<>> ELSE <<LinesOf(calls[1])>> \o LinesOfAll(Tail(calls))

RECURSIVE SumLen(_)
SumLen(g) == IF g = <<>> THEN 0 ELSE Len(g[1].members) + SumLen(Tail(g))

DoneBy(o) == pc = "done" /\ op = o

\* C1: _process_issues chooses the strategy from the issue count n alone:
\* n > 10 makes the calls of process_issues (by category), 6 <= n <= 10 the
\* calls of process_issues_by_function, 1 <= n <= 5 exactly one run_aider call
\* whose instruction carries all n issue lines in their original order; and
\* exactly one of the three branches is taken.
C1_StrategyByCount ==
    DoneBy("_process_issues") =>
        LET n == Len(issues) IN
        /\ Len(strategy) = 1
        /\ n > 10 =>
              /\ strategy = <<"by_type">>
              /\ aider_calls = TypeCalls(group_issues_by_type(issues))
        /\ (6 <= n /\ n <= 10) =>
              /\ strategy = <<"by_function">>
              /\ aider_calls = FunctionCalls(group_issues_by_function(issues))
        /\ (1 <= n /\ n <= 5) =>
              /\ strategy = <<"single">>
              /\ Len(aider_calls) = 1
              /\ aider_calls[1].template = "Address the following issues: "
              /\ LinesOf(aider_calls[1]) = issues

\* C1 witness: the three ranges of n are all taken, here the largest one
C1_Witness ==
    /\ DoneBy("_process_issues")
    /\ Len(issues) > 10
    /\ Len(aider_calls) >= 3

CategoryOrder == <<"complexity", "style", "error_handling", "other">>

MatchesCategory(issue, k) ==
    CASE k = "complexity"     -> IsComplexity(issue)
      [] k = "style"          -> IsStyle(issue)
      [] k = "error_handling" -> IsErrorHandling(issue)
      [] k = "other"          -> TRUE

\* the first category, in the fixed order, that the issue matches
FirstMatch(issue) ==
    CategoryOrder[CHOOSE i \in 1..Len(CategoryOrder) :
                    /\ MatchesCategory(issue, CategoryOrder[i])
                    /\ \A j \in 1..(i - 1) : ~MatchesCategory(issue, CategoryOrder[j])]

\* C2: group_issues_by_type has exactly the four fixed categories; each group
\* holds, in their original relative order, exactly the issues whose first
\* matching category (complexity, style, error_handling, other) it is; so
\* every issue is in exactly one group, none is lost and none duplicated.
C2_ByTypePartition ==
    DoneBy("process_issues") =>
        /\ [i \in 1..Len(grouped) |-> grouped[i].key] = CategoryOrder
        /\ \A i \in 1..Len(grouped) :
              grouped[i].members
                = SelectSeq(issues, LAMBDA x : FirstMatch(x) = grouped[i].key)
        /\ SumLen(grouped) = Len(issues)
        /\ \A n \in 1..Len(issues) :
              Cardinality({i \in 1..Len(grouped) :
                             \E m \in 1..Len(grouped[i].members) :
                                grouped[i].members[m] = issues[n]}) = 1

\* C2 witness: a list with issues that match two categories, grouped
C2_Witness ==
    /\ DoneBy("process_issues")
    /\ \E i, j \in 1..Len(issues) : i < j /\ issues[i] = L2 /\ issues[j] = L5
    /\ Cardinality({i \in 1..Len(grouped) : grouped[i].members # <<>>}) >= 3

\* positions of the ':' characters of an issue line
ColonsAt(x) == {i \in 1..Len(x) : x[i] = ":"}

NumFields(x) == Cardinality(ColonsAt(x)) + 1

\* the text between the second ':' and the third ':' (or the end of the line)
ThirdField(x) ==
    LET c2 == CHOOSE i \in ColonsAt(x) : Cardinality({j \in ColonsAt(x) : j < i}) = 1
        after == {i \in ColonsAt(x) : i > c2}
        c3 == IF after = {} THEN Len(x) + 1
              ELSE CHOOSE i \in after : \A j \in after : i <= j
    IN SubSeq(x, c2 + 1, c3 - 1)

\* s without its leading and trailing whitespace
Trimmed(s) ==
    LET solid == {i \in 1..Len(s) : s[i] \notin Whitespace} IN
    IF solid = {} THEN <<>>
    ELSE SubSeq(s, CHOOSE i \in solid : \A j \in solid : i <= j,
                   CHOOSE i \in solid : \A j \in solid : i >= j)

HasFunctionField(x) == NumFields(x) >= 3

\* C3: group_issues_by_function keeps exactly the issues with at least three
\* ':'-separated fields; each kept issue is in exactly one group, the one
\* keyed by its trimmed third field; groups keep the original order; issues
\* with fewer than three fields are in no group.
C3_ByFunctionGroups ==
    DoneBy("process_issues_by_function") =>
        /\ \A i, j \in 1..Len(grouped) : grouped[i].key = grouped[j].key => i = j
        /\ \A i \in 1..Len(grouped) :
              /\ grouped[i].members # <<>>
              /\ grouped[i].members
                   = SelectSeq(issues, LAMBDA x :
                        HasFunctionField(x) /\ Trimmed(ThirdField(x)) = grouped[i].key)
        /\ \A n \in 1..Len(issues) :
              HasFunctionField(issues[n]) => HasKey(grouped, Trimmed(ThirdField(issues[n])))
        /\ SumLen(grouped) = Len(SelectSeq(issues, HasFunctionField))

\* C3 witness: two issues of one function (one key needing the trim), an
\* issue without a function field, and a second group
C3_Witness ==
    /\ DoneBy("process_issues_by_function")
    /\ \E i, j, k \in 1..Len(issues) : issues[i] = L1 /\ issues[j] = L2 /\ issues[k] = L4
    /\ Len(grouped) >= 2
    /\ SumLen(grouped) < Len(issues)

\* C4: with window size W >= 1 over N issues, process_issues_with_sliding_window
\* calls run_aider ceil(N/W) times, every window but possibly the last has W
\* issues, and the windows concatenated in call order are the issue list.
C4_SlidingWindow ==
    (DoneBy("process_issues_with_sliding_window") /\ window_size >= 1) =>
        LET N == Len(issues)
            W == window_size
            ws == LinesOfAll(aider_calls)
        IN /\ Len(aider_calls) = (N + W - 1) \div W
           /\ \A k \in 1..Len(ws) :
                 IF k < Len(ws) THEN Len(ws[k]) = W
                 ELSE 1 <= Len(ws[k]) /\ Len(ws[k]) <= W
           /\ Flatten(ws) = issues

\* C4 witness: several windows, the last one shorter
C4_Witness ==
    /\ DoneBy("process_issues_with_sliding_window")
    /\ Len(aider_calls) >= 3
    /\ Len(issues) % window_size # 0

----------------------------------------------------------------------------
(* ResourceManager: the rate window and the temp-file registry *)

WindowSeconds  == 60     \* timedelta(minutes=1)
TempMaxAgeSecs == 3600   \* timedelta(hours=1)

\* faulty variant: a timestamp exactly one window old is kept
PruneInclusive(calls, t) == SelectSeq(calls, LAMBDA c : t - c <= WindowSeconds)

\* [c for c in api_calls if current_time - c < timedelta(minutes=1)]
Prune(calls, t) == SelectSeq(calls, LAMBDA c : t - c < WindowSeconds)

\* faulty variant: the capacity test lets one call too many through
CheckOffByOne(calls, t, limit) ==
    LET kept == Prune(calls, t) IN
    IF Len(kept) > limit
    THEN [ok |-> FALSE, calls |-> kept]
    ELSE [ok |-> TRUE,  calls |-> Append(kept, t)]

\* ResourceManager.check_rate_limit at instant t: the result and the new window
check_rate_limit(calls, t, limit) ==
    LET kept == Prune(calls, t) IN
    IF Len(kept) >= limit
    THEN [ok |-> FALSE, calls |-> kept]
    ELSE [ok |-> TRUE,  calls |-> Append(kept, t)]

\* the temp-file loop of cleanup_resources: paths that leave the registry
Unregistered(files, d, t) ==
    {f \in files : f \notin DOMAIN d \/ t - d[f] > TempMaxAgeSecs}

\* the temp-file loop of cleanup_resources: paths that are unlinked
Unlinked(files, d, t) ==
    {f \in files : f \in DOMAIN d /\ t - d[f] > TempMaxAgeSecs}

Restrict(f, S) == [x \in S |-> f[x]]

\* time passes
Deltas == {29, 30, 31}

Tick(d) ==
    /\ now + d <= MaxTime
    /\ now' = now + d
    /\ UNCHANGED <<api_rate_limit, api_calls, temp_files, disk, rate_log>>
    /\ UNCHANGED <<grpVars, askVars, sessVars, runVars>>
    /\ UNCHANGED <<monitoring, monitor_threads>>
    /\ UNCHANGED <<selVars, thrVars>>

\* a serial call of ResourceManager.check_rate_limit
CheckRateLimit ==
    /\ Len(rate_log) < MaxCalls
    /\ LET r == check_rate_limit(api_calls, now, api_rate_limit) IN
        /\ api_calls' = r.calls
        /\ rate_log' = Append(rate_log, [t |-> now, ok |-> r.ok])
    /\ UNCHANGED <<now, api_rate_limit, temp_files, disk>>
    /\ UNCHANGED <<grpVars, askVars, sessVars, runVars>>
    /\ UNCHANGED <<monitoring, monitor_threads>>
    /\ UNCHANGED <<selVars, thrVars>>

\* a serial call of ResourceManager.cleanup_resources
CleanupResources ==
    /\ temp_files' = temp_files \ Unregistered(temp_files, disk, now)
    /\ disk' = Restrict(disk, DOMAIN disk \ Unlinked(temp_files, disk, now))
    /\ api_calls' = Prune(api_calls, now)
    /\ UNCHANGED <<now, api_rate_limit, rate_log>>
    /\ UNCHANGED <<grpVars, askVars, sessVars, runVars>>
    /\ UNCHANGED <<monitoring, monitor_threads>>
    /\ UNCHANGED <<selVars, thrVars>>

MaxThreads == 2   \* start_monitoring calls made on one ResourceManager

\* the last thread start_monitoring started: self.monitor_thread
MonitorThread == Len(monitor_threads)

\* ResourceManager.start_monitoring: set the flag, start a new daemon thread
\* and keep it in self.monitor_thread
start_monitoring ==
    /\ Len(monitor_threads) < MaxThreads
    /\ monitoring' = TRUE
    /\ monitor_threads' = Append(monitor_threads, "running")
    /\ UNCHANGED <<now, api_rate_limit, api_calls, temp_files, disk, rate_log>>
    /\ UNCHANGED <<grpVars, askVars, sessVars, runVars, selVars, thrVars>>

\* ResourceManager.stop_monitoring: clear the flag and join self.monitor_thread,
\* which leaves its loop at its next test of the flag
stop_monitoring ==
    /\ monitoring' = FALSE
    /\ monitor_threads' =
           IF MonitorThread = 0 THEN monitor_threads
           ELSE [monitor_threads EXCEPT ![MonitorThread] = "joined"]
    /\ UNCHANGED <<now, api_rate_limit, api_calls, temp_files, disk, rate_log>>
    /\ UNCHANGED <<grpVars, askVars, sessVars, runVars, selVars, thrVars>>

\* ResourceManager._monitor_resources, one test of the flag by thread i: with
\* the flag set, one sample (cleanup_resources when the memory use is high)
\* and a sleep; with the flag cleared the thread leaves the loop and ends
_monitor_resources(i, high) ==
    /\ i \in 1..Len(monitor_threads)
    /\ monitor_threads[i] = "running"
    /\ IF monitoring
       THEN /\ temp_files' = IF high THEN temp_files \ Unregistered(temp_files, disk, now)
                             ELSE temp_files
            /\ disk' = IF high
                       THEN Restrict(disk, DOMAIN disk \ Unlinked(temp_files, disk, now))
                       ELSE disk
            /\ api_calls' = IF high THEN Prune(api_calls, now) ELSE api_calls
            /\ UNCHANGED monitor_threads
       ELSE /\ monitor_threads' = [monitor_threads EXCEPT ![i] = "exited"]
            /\ UNCHANGED <<temp_files, disk, api_calls>>
    /\ UNCHANGED <<now, api_rate_limit, rate_log, monitoring>>
    /\ UNCHANGED <<grpVars, askVars, sessVars, runVars, selVars, thrVars>>

\* a new ResourceManager; the file processor is not used
RateInit ==
    /\ pc = "start"
    /\ enable_black = FALSE
    /\ issues = <<>>
    /\ op = "none"
    /\ strategy = <<>>
    /\ grouped = <<>>
    /\ window_size = 0
    /\ aider_calls = <<>>
    /\ commits = <<>>
    /\ now = 0
    /\ api_rate_limit \in 1..MaxLimit
    /\ api_calls = <<>>
    /\ temp_files = {}
    /\ disk = <<>>
    /\ rate_log = <<>>
    /\ ask_pc = "idle"
    /\ attempt = 0
    /\ effects = <<>>
    /\ raised = NoError
    /\ result = [kind |-> "none"]
    /\ asks = 0
    /\ plan = <<>>
    /\ temp_file_path = <<>>
    /\ sess_pc = "idle"
    /\ session = "none"
    /\ child = NoChild
    /\ elapsed = 0
    /\ reads = <<>>
    /\ capture_output = FALSE
    /\ response = <<>>
    /\ stdin = EmptyPipe
    /\ signals = <<>>
    /\ sess_result = [kind |-> "none"]
    /\ run_pc = "idle"
    /\ config = [autopep8_fix |-> FALSE, enable_black |-> FALSE]
    /\ file_no = 0
    /\ gate = [pre |-> TRUE, post |-> TRUE]
    /\ file_issues = <<>>
    /\ dirty = FALSE
    /\ trace = <<>>
    /\ exit_status = -1
    /\ monitoring = FALSE
    /\ monitor_threads = <<>>
    /\ spawns = <<>>
    /\ listed = <<>>
    /\ python_files = <<>>
    /\ cursor = 0
    /\ processed = <<>>
    /\ limits = [line_count_min |-> 1, line_count_max |-> 2]
    /\ threads = NoThreads
    /\ cleanup_log = <<>>

RateNext ==
    \/ \E d \in Deltas : Tick(d)
    \/ CheckRateLimit
    \/ CleanupResources
    \/ start_monitoring
    \/ stop_monitoring
    \/ \E i \in 1..MaxThreads, high \in BOOLEAN : _monitor_resources(i, high)

RateSpec == RateInit /\ [][RateNext]_vars

----------------------------------------------------------------------------
(* Claims about the rate limiter (under RateSpec) *)

\* the timestamps of the window that are less than 60 seconds old at instant t
Young(calls, t) == SelectSeq(calls, LAMBDA c : ~(t - c >= 60))

\* a step that is a call of check_rate_limit, and the result of that call
IsRateCall == rate_log' # rate_log
RateCallResult == rate_log'[Len(rate_log')].ok

\* C5: check_rate_limit first drops the timestamps that are 60 seconds old or
\* older; if as many as api_rate_limit remain it returns False and records
\* nothing; otherwise it records exactly the current instant and returns
\* True.  So, under serial calls, the window never holds more than
\* api_rate_limit timestamps.
C5_CheckAndRecord ==
    /\ [](Len(api_calls) <= api_rate_limit)
    /\ [][IsRateCall =>
            /\ RateCallResult = (Len(Young(api_calls, now)) < api_rate_limit)
            /\ RateCallResult => api_calls' = Append(Young(api_calls, now), now)
            /\ ~RateCallResult => api_calls' = Young(api_calls, now)]_vars

\* C5 witness: with a limit of 2, a call was refused with the window full, and
\* a call made 60 seconds or more after the start was let through
C5_Witness ==
    /\ api_rate_limit = 2
    /\ Len(api_calls) = 2
    /\ \E i, j \in 1..Len(rate_log) :
          /\ i < j
          /\ ~rate_log[i].ok
          /\ rate_log[j].ok /\ rate_log[j].t >= 60

\* the calls before call i that were let through
GrantedBefore(i) == {j \in 1..(i - 1) : rate_log[j].ok}

FirstGrantTime(i) ==
    rate_log[CHOOSE j \in GrantedBefore(i) : \A k \in GrantedBefore(i) : j <= k].t

\* C6: starting from an empty window, once exactly `limit` calls have been let
\* through, a call less than 60 seconds after the first of them returns
\* False, and a call more than 60 seconds after the first of them returns
\* True.
C6_LimitThenRestore ==
    \A i \in 1..Len(rate_log) :
        Cardinality(GrantedBefore(i)) = api_rate_limit =>
            /\ rate_log[i].t - FirstGrantTime(i) < 60 => ~rate_log[i].ok
            /\ rate_log[i].t - FirstGrantTime(i) > 60 => rate_log[i].ok

\* C6 witness: limit 2; two calls let through, the third refused in the same
\* window, the fourth let through after the window of the first has passed
C6_Witness ==
    /\ api_rate_limit = 2
    /\ Len(rate_log) = 4
    /\ rate_log[1].ok /\ rate_log[2].ok /\ ~rate_log[3].ok /\ rate_log[4].ok
    /\ rate_log[3].t - rate_log[1].t < 60
    /\ rate_log[4].t - rate_log[1].t > 60

\* the timestamps of a window are in non-decreasing order
Ordered(calls) == \A i, j \in 1..Len(calls) : i < j => calls[i] <= calls[j]

\* C34: in every reachable state the rate window holds no timestamp older
\* than 60 seconds, and its timestamps are in non-decreasing order.
C34_WindowFresh ==
    /\ \A i \in 1..Len(api_calls) : now - api_calls[i] <= WindowSeconds
    /\ Ordered(api_calls)

----------------------------------------------------------------------------
(* ResourceManager called from two threads: check_rate_limit and           *)
(* cleanup_resources on the main thread, cleanup_resources on the monitor  *)
(* thread.  No lock is taken; a thread switch may fall between any two     *)
(* statements                                                              *)

Threads == {"main", "monitor"}

\* two registered temp files: OldFile was written more than an hour ago;
\* GoneFile is registered and no longer exists
OldFile  == <<1, 1>>
GoneFile == <<1, 2>>
OldMtime == 0 - TempMaxAgeSecs - 1

MaxRaceCalls == 2    \* check_rate_limit calls explored with the two threads
MaxRaceTime  == 62   \* last instant (seconds) explored with the two threads

\* time passes between two statements
RaceDeltas == {31}

RaceTick(d) ==
    /\ now + d <= MaxRaceTime
    /\ now' = now + d
    /\ UNCHANGED <<api_rate_limit, api_calls, temp_files, disk, rate_log,
                   monitoring, monitor_threads>>
    /\ UNCHANGED <<grpVars, askVars, sessVars, runVars, selVars, thrVars>>

\* the locals of thread t replaced by those of record r
Locals(t, r) == [threads EXCEPT ![t] = r]

\* `except Exception as e: self.logger.error(...)` of the temp-file loop
CleanupError(t, f, e) == [thread |-> t, op |-> "error", file |-> f, ok |-> FALSE, exc |-> e]

\* check_rate_limit, lines 85-88: read the clock and build the pruned list
CheckBuildsWindow ==
    /\ threads["main"].pc = "idle"
    /\ Len(rate_log) < MaxRaceCalls
    /\ threads' = Locals("main", [threads["main"] EXCEPT
                      !.pc = "check_store",
                      !.current_time = now,
                      !.kept = Prune(api_calls, now)])
    /\ UNCHANGED <<rateVars, cleanup_log>>
    /\ UNCHANGED <<grpVars, askVars, sessVars, runVars, selVars>>

\* check_rate_limit, line 86: self.api_calls = <the pruned list>
CheckStoresWindow ==
    /\ threads["main"].pc = "check_store"
    /\ api_calls' = threads["main"].kept
    /\ threads' = Locals("main", [threads["main"] EXCEPT !.pc = "check_test"])
    /\ UNCHANGED <<now, api_rate_limit, temp_files, disk, rate_log, monitoring,
                   monitor_threads, cleanup_log>>
    /\ UNCHANGED <<grpVars, askVars, sessVars, runVars, selVars>>

\* check_rate_limit, lines 91-92: the capacity test on the list that
\* self.api_calls holds now
CheckTestsCapacity ==
    /\ threads["main"].pc = "check_test"
    /\ IF Len(api_calls) >= api_rate_limit
       THEN /\ rate_log' = Append(rate_log, [t |-> threads["main"].current_time,
                                             ok |-> FALSE])
            /\ threads' = Locals("main", Idle)
       ELSE /\ threads' = Locals("main", [threads["main"] EXCEPT !.pc = "check_append"])
            /\ UNCHANGED rate_log
    /\ UNCHANGED <<now, api_rate_limit, api_calls, temp_files, disk, monitoring,
                   monitor_threads, cleanup_log>>
    /\ UNCHANGED <<grpVars, askVars, sessVars, runVars, selVars>>

\* check_rate_limit, lines 94-95: append to the list that self.api_calls
\* holds now, return True
CheckAppends ==
    /\ threads["main"].pc = "check_append"
    /\ api_calls' = Append(api_calls, threads["main"].current_time)
    /\ rate_log' = Append(rate_log, [t |-> threads["main"].current_time, ok |-> TRUE])
    /\ threads' = Locals("main", Idle)
    /\ UNCHANGED <<now, api_rate_limit, temp_files, disk, monitoring,
                   monitor_threads, cleanup_log>>
    /\ UNCHANGED <<grpVars, askVars, sessVars, runVars, selVars>>

\* cleanup_resources, lines 57-60, entered by thread t: the main thread
\* calls it at the end of every ask_question, the monitor thread when the
\* memory use is high; read the clock and copy the registry
CleanupBegins(t) ==
    /\ threads[t].pc = "idle"
    /\ t = "monitor" => monitoring /\ Has(monitor_threads, "running")
    /\ threads' = Locals(t, [Idle EXCEPT !.pc = "files", !.current_time = now,
                                         !.todo = temp_files])
    /\ UNCHANGED <<rateVars, cleanup_log>>
    /\ UNCHANGED <<grpVars, askVars, sessVars, runVars, selVars>>

\* lines 62-64 for the next path f of the copy: a path that does not exist
\* is removed from the registry (set.remove raises KeyError when another
\* thread has removed it already)
CleanupExists(t, f) ==
    /\ threads[t].pc = "files"
    /\ f \in threads[t].todo
    /\ IF f \in DOMAIN disk
       THEN /\ threads' = Locals(t, [threads[t] EXCEPT !.pc = "stat", !.temp_file = f,
                                                       !.todo = @ \ {f}])
            /\ UNCHANGED <<temp_files, cleanup_log>>
       ELSE /\ threads' = Locals(t, [threads[t] EXCEPT !.todo = @ \ {f}])
            /\ temp_files' = temp_files \ {f}
            /\ cleanup_log' = IF f \in temp_files THEN cleanup_log
                              ELSE Append(cleanup_log, CleanupError(t, f, "KeyError"))
    /\ UNCHANGED <<now, api_rate_limit, api_calls, disk, rate_log, monitoring,
                   monitor_threads>>
    /\ UNCHANGED <<grpVars, askVars, sessVars, runVars, selVars>>

\* line 67: stat().st_mtime and the age test (FileNotFoundError when the
\* path is gone by now)
CleanupStat(t) ==
    /\ threads[t].pc = "stat"
    /\ LET f == threads[t].temp_file IN
       IF f \notin DOMAIN disk
       THEN /\ cleanup_log' = Append(cleanup_log, CleanupError(t, f, "FileNotFoundError"))
            /\ threads' = Locals(t, [threads[t] EXCEPT !.pc = "files", !.temp_file = <<>>])
       ELSE /\ UNCHANGED cleanup_log
            /\ threads' = Locals(t, [threads[t] EXCEPT
                   !.pc = IF threads[t].current_time - disk[f] > TempMaxAgeSecs
                          THEN "unlink" ELSE "files",
                   !.temp_file = IF threads[t].current_time - disk[f] > TempMaxAgeSecs
                                 THEN f ELSE <<>>])
    /\ UNCHANGED rateVars
    /\ UNCHANGED <<grpVars, askVars, sessVars, runVars, selVars>>

\* line 68: temp_file.unlink() (FileNotFoundError when the path is gone)
CleanupUnlink(t) ==
    /\ threads[t].pc = "unlink"
    /\ LET f == threads[t].temp_file IN
       IF f \in DOMAIN disk
       THEN /\ disk' = Restrict(disk, DOMAIN disk \ {f})
            /\ cleanup_log' = Append(cleanup_log,
                   [thread |-> t, op |-> "unlink", file |-> f, ok |-> TRUE, exc |-> "none"])
            /\ threads' = Locals(t, [threads[t] EXCEPT !.pc = "remove"])
       ELSE /\ UNCHANGED disk
            /\ cleanup_log' = cleanup_log \o
                   <<[thread |-> t, op |-> "unlink", file |-> f, ok |-> FALSE,
                      exc |-> "FileNotFoundError"],
                     CleanupError(t, f, "FileNotFoundError")>>
            /\ threads' = Locals(t, [threads[t] EXCEPT !.pc = "files", !.temp_file = <<>>])
    /\ UNCHANGED <<now, api_rate_limit, api_calls, temp_files, rate_log, monitoring,
                   monitor_threads>>
    /\ UNCHANGED <<grpVars, askVars, sessVars, runVars, selVars>>

\* line 69: self.temp_files.remove(temp_file)
CleanupRemove(t) ==
    /\ threads[t].pc = "remove"
    /\ LET f == threads[t].temp_file IN
       /\ temp_files' = temp_files \ {f}
       /\ cleanup_log' = IF f \in temp_files THEN cleanup_log
                         ELSE Append(cleanup_log, CleanupError(t, f, "KeyError"))
    /\ threads' = Locals(t, [threads[t] EXCEPT !.pc = "files", !.temp_file = <<>>])
    /\ UNCHANGED <<now, api_rate_limit, api_calls, disk, rate_log, monitoring,
                   monitor_threads>>
    /\ UNCHANGED <<grpVars, askVars, sessVars, runVars, selVars>>

\* lines 74-77 once the copy is exhausted: build the pruned list
CleanupBuildsWindow(t) ==
    /\ threads[t].pc = "files"
    /\ threads[t].todo = {}
    /\ threads' = Locals(t, [threads[t] EXCEPT
                      !.pc = "cleanup_store",
                      !.kept = Prune(api_calls, threads[t].current_time)])
    /\ UNCHANGED <<rateVars, cleanup_log>>
    /\ UNCHANGED <<grpVars, askVars, sessVars, runVars, selVars>>

\* line 74: self.api_calls = <the pruned list>
CleanupStoresWindow(t) ==
    /\ threads[t].pc = "cleanup_store"
    /\ api_calls' = threads[t].kept
    /\ threads' = Locals(t, Idle)
    /\ UNCHANGED <<now, api_rate_limit, temp_files, disk, rate_log, monitoring,
                   monitor_threads, cleanup_log>>
    /\ UNCHANGED <<grpVars, askVars, sessVars, runVars, selVars>>

\* a ResourceManager whose monitor thread runs, with two registered paths
RaceInit ==
    /\ pc = "start"
    /\ enable_black = FALSE
    /\ issues = <<>>
    /\ op = "none"
    /\ strategy = <<>>
    /\ grouped = <<>>
    /\ window_size = 0
    /\ aider_calls = <<>>
    /\ commits = <<>>
    /\ now = 0
    /\ api_rate_limit \in 1..MaxLimit
    /\ api_calls = <<>>
    /\ temp_files = {OldFile, GoneFile}
    /\ disk = (OldFile :> OldMtime)
    /\ rate_log = <<>>
    /\ ask_pc = "idle"
    /\ attempt = 0
    /\ effects = <<>>
    /\ raised = NoError
    /\ result = [kind |-> "none"]
    /\ asks = 0
    /\ plan = <<>>
    /\ temp_file_path = <<>>
    /\ sess_pc = "idle"
    /\ session = "none"
    /\ child = NoChild
    /\ elapsed = 0
    /\ reads = <<>>
    /\ capture_output = FALSE
    /\ response = <<>>
    /\ stdin = EmptyPipe
    /\ signals = <<>>
    /\ sess_result = [kind |-> "none"]
    /\ run_pc = "idle"
    /\ config = [autopep8_fix |-> FALSE, enable_black |-> FALSE]
    /\ file_no = 0
    /\ gate = [pre |-> TRUE, post |-> TRUE]
    /\ file_issues = <<>>
    /\ dirty = FALSE
    /\ trace = <<>>
    /\ exit_status = -1
    /\ monitoring = TRUE
    /\ monitor_threads = <<"running">>
    /\ spawns = <<>>
    /\ listed = <<>>
    /\ python_files = <<>>
    /\ cursor = 0
    /\ processed = <<>>
    /\ limits = [line_count_min |-> 1, line_count_max |-> 2]
    /\ threads = NoThreads
    /\ cleanup_log = <<>>

RaceNext ==
    \/ \E d \in RaceDeltas : RaceTick(d)
    \/ CheckBuildsWindow
    \/ CheckStoresWindow
    \/ CheckTestsCapacity
    \/ CheckAppends
    \/ \E t \in Threads : CleanupBegins(t)
    \/ \E t \in Threads, f \in {OldFile, GoneFile} : CleanupExists(t, f)
    \/ \E t \in Threads : CleanupStat(t)
    \/ \E t \in Threads : CleanupUnlink(t)
    \/ \E t \in Threads : CleanupRemove(t)
    \/ \E t \in Threads : CleanupBuildsWindow(t)
    \/ \E t \in Threads : CleanupStoresWindow(t)

RaceSpec == RaceInit /\ [][RaceNext]_vars

----------------------------------------------------------------------------
(* Claims about the two threads (under RaceSpec) *)

\* the calls let through whose instant lies in the 60 seconds ending at t
GrantedIn(t) ==
    {j \in 1..Len(rate_log) :
        rate_log[j].ok /\ rate_log[j].t <= t /\ t - rate_log[j].t < WindowSeconds}

\* C35: whatever the interleaving of cleanup_resources on the monitor thread
\* with check_rate_limit on the main thread, every call that was let through
\* stays in the window until it is 60 seconds old, and no 60-second window
\* holds more calls let through than api_rate_limit.
C35_MonitorKeepsWindow ==
    /\ \A j \in 1..Len(rate_log) :
           (rate_log[j].ok /\ now - rate_log[j].t < WindowSeconds)
           => Has(api_calls, rate_log[j].t)
    /\ \A j \in 1..Len(rate_log) :
           rate_log[j].ok => Cardinality(GrantedIn(rate_log[j].t)) <= api_rate_limit

\* C36: whatever the interleaving of cleanup_resources on the two threads, no
\* unlink is attempted on a path that is already gone, no cleanup error is
\* logged, and each path is unlinked at most once.
C36_DeleteOnce ==
    /\ \A i \in 1..Len(cleanup_log) :
           cleanup_log[i].op = "unlink" /\ cleanup_log[i].ok
    /\ \A i, j \in 1..Len(cleanup_log) :
           (i # j /\ cleanup_log[i].op = "unlink" /\ cleanup_log[j].op = "unlink")
           => cleanup_log[i].file # cleanup_log[j].file

----------------------------------------------------------------------------
(* AiderInterrogator.ask_question under @retry(stop_after_attempt(3),      *)
(* wait_exponential(multiplier=1, min=4, max=10), reraise=True)            *)

StopAfterAttempt == 3
WaitMultiplier   == 1
WaitMin          == 4
WaitMax          == 10
SessionTimeout   == 300

Max(a, b) == IF a > b THEN a ELSE b

\* wait_exponential: seconds slept after the failed attempt n
Wait(n) == Max(WaitMin, Min(WaitMultiplier * (2 ^ n), WaitMax))

\* faulty variant: the wrapper gives up one attempt early
StopEarly(n) == n >= StopAfterAttempt - 1

\* stop_after_attempt(3): no further attempt after attempt n
Stop(n) == n >= StopAfterAttempt

\* the wrapper's retry predicate: tenacity's default, retry on any exception
ShouldRetry(exc) == exc # NoError

\* what the child session of one attempt does, when it is run
Behaviours == {"ok", "timeout", "io_error", "not_found"}
Plans == [1..StopAfterAttempt -> Behaviours]

\* seconds a session that ends by itself may take
SessionDurations == {QuickSecs}

Duration(b, d) ==
    CASE b = "timeout"   -> SessionTimeout + 1
      [] b = "not_found" -> 0
      [] OTHER           -> d

\* the exception that leaves the try statement of ask_question:
\* AiderTimeoutError is caught and re-raised as AiderProcessError by
\* _handle_aider_error; AiderProcessError (read failure) and FileNotFoundError
\* (Popen) match no except clause and propagate
BodyError(b) ==
    CASE b = "ok"        -> NoError
      [] b = "timeout"   -> [type |-> "AiderProcessError",  cause |-> "AiderTimeoutError"]
      [] b = "io_error"  -> [type |-> "AiderProcessError",  cause |-> "OSError"]
      [] b = "not_found" -> [type |-> "FileNotFoundError",  cause |-> "none"]

RateLimitError == [type |-> "AiderProcessError", cause |-> "rate_limit"]

\* the response text the child of attempt n prints: " rN\n"
Digits == <<"1", "2", "3", "4", "5", "6", "7", "8", "9">>
Response(n) == <<" ", "r", Digits[n], Newline>>

\* effects of a session: Popen spawns the child unless the executable is
\* missing; _store_response runs only after a session that returned
SessionEffects(b) ==
    CASE b = "ok"        -> <<"spawn", "store">>
      [] b = "not_found" -> <<>>
      [] OTHER           -> <<"spawn">>

\* the effect log with e appended to the running attempt's effects
Logged(log, e) == [log EXCEPT ![Len(log)] = @ \o e]

\* faulty variant: the temp file is created before the rate check
CheckRateAfterTemp(ok) ==
    IF ok THEN <<"temp_file", "rate_ok">> ELSE <<"temp_file", "rate_rejected">>

\* effects of the first statement of the body, _check_rate_limit
CheckRateEffects(ok) == IF ok THEN <<"rate_ok">> ELSE <<"rate_rejected">>

MaxFixes == 2   \* run_aider calls made on one interrogator

\* time.sleep(5) at the start of run_aider
FixDelaySecs == 5

\* a child process started by Popen at this instant: by which method, and
\* whether check_rate_limit returned True in that call before the Popen
Spawn(by, checked) == [t |-> now, by |-> by, checked |-> checked]

\* the fix sessions started so far
FixSpawns == SelectSeq(spawns, LAMBDA c : c.by = "fix")

\* AiderRunner.run_aider, which AiderInterrogator inherits, with the
\* executable present: sleep, Popen, the stdout loop until the child has
\* ended; no call of check_rate_limit is made
run_aider(d) ==
    /\ ask_pc = "idle"
    /\ Len(FixSpawns) < MaxFixes
    /\ now' = now + FixDelaySecs + d
    /\ spawns' = Append(spawns, [Spawn("fix", FALSE) EXCEPT !.t = now + FixDelaySecs])
    /\ UNCHANGED <<ask_pc, attempt, effects, raised, result, asks, plan, temp_file_path>>
    /\ UNCHANGED <<api_rate_limit, api_calls, temp_files, disk, rate_log,
                   monitoring, monitor_threads>>
    /\ UNCHANGED <<grpVars, sessVars, runVars, selVars, thrVars>>

\* a caller invokes the decorated ask_question
StartAsk(p) ==
    /\ ask_pc = "idle"
    /\ asks < MaxAsks
    /\ asks' = asks + 1
    /\ plan' = p
    /\ attempt' = 1
    /\ effects' = << <<>> >>
    /\ raised' = NoError
    /\ result' = [kind |-> "none"]
    /\ ask_pc' = "check_rate"
    /\ UNCHANGED <<temp_file_path, rateVars, grpVars, sessVars, runVars>>
    /\ UNCHANGED spawns
    /\ UNCHANGED <<selVars, thrVars>>

\* self._check_rate_limit()
AskCheckRateLimit ==
    /\ ask_pc = "check_rate"
    /\ LET r == check_rate_limit(api_calls, now, api_rate_limit) IN
        /\ api_calls' = r.calls
        /\ effects' = Logged(effects, CheckRateEffects(r.ok))
        /\ raised' = IF r.ok THEN NoError ELSE RateLimitError
        /\ ask_pc' = IF r.ok THEN "create_temp" ELSE "wrapper"
    /\ UNCHANGED <<attempt, result, asks, plan, temp_file_path>>
    /\ UNCHANGED <<now, api_rate_limit, temp_files, disk, rate_log, grpVars, sessVars, runVars>>
    /\ UNCHANGED <<monitoring, monitor_threads>>
    /\ UNCHANGED spawns
    /\ UNCHANGED <<selVars, thrVars>>

\* temp_file_path = self._create_temp_file(code); the new file is named by
\* the call and the attempt that created it
AskCreateTempFile ==
    /\ ask_pc = "create_temp"
    /\ LET f == <<asks, attempt>> IN
        /\ temp_file_path' = f
        /\ disk' = [x \in DOMAIN disk \cup {f} |-> IF x = f THEN now ELSE disk[x]]
    /\ effects' = Logged(effects, <<"temp_file">>)
    /\ ask_pc' = "session"
    /\ UNCHANGED <<attempt, raised, result, asks, plan>>
    /\ UNCHANGED <<now, api_rate_limit, api_calls, temp_files, rate_log, grpVars, sessVars, runVars>>
    /\ UNCHANGED <<monitoring, monitor_threads>>
    /\ UNCHANGED spawns
    /\ UNCHANGED <<selVars, thrVars>>

\* the try block: _build_aider_command, _run_aider_process, _store_response,
\* return response.strip(); and its except clauses
AskRunSession(d) ==
    /\ ask_pc = "session"
    /\ LET b == plan[attempt] IN
        /\ now' = now + Duration(b, d)
        /\ effects' = Logged(effects, SessionEffects(b))
        /\ spawns' = IF Has(SessionEffects(b), "spawn")
                     THEN Append(spawns, Spawn("ask", Has(effects[attempt], "rate_ok")))
                     ELSE spawns
        /\ raised' = BodyError(b)
        /\ result' = IF b = "ok"
                     THEN [kind |-> "pending", value |-> Strip(Response(attempt))]
                     ELSE result
    /\ ask_pc' = "finally"
    /\ UNCHANGED <<attempt, asks, plan, temp_file_path>>
    /\ UNCHANGED <<api_rate_limit, api_calls, temp_files, disk, rate_log, grpVars, sessVars, runVars>>
    /\ UNCHANGED <<monitoring, monitor_threads>>
    /\ UNCHANGED <<selVars, thrVars>>

\* finally: self._cleanup_resources(temp_file_path), which registers the temp
\* file and calls ResourceManager.cleanup_resources
AskFinally ==
    /\ ask_pc = "finally"
    /\ LET registered == temp_files \cup {temp_file_path} IN
        /\ temp_files' = registered \ Unregistered(registered, disk, now)
        /\ disk' = Restrict(disk, DOMAIN disk \ Unlinked(registered, disk, now))
    /\ api_calls' = Prune(api_calls, now)
    /\ effects' = Logged(effects, <<"cleanup">>)
    /\ temp_file_path' = <<>>
    /\ ask_pc' = "wrapper"
    /\ UNCHANGED <<attempt, raised, result, asks, plan>>
    /\ UNCHANGED <<now, api_rate_limit, rate_log, grpVars, sessVars, runVars>>
    /\ UNCHANGED <<monitoring, monitor_threads>>
    /\ UNCHANGED spawns
    /\ UNCHANGED <<selVars, thrVars>>

\* the retry wrapper: the attempt returned, the call returns its value
AskReturn ==
    /\ ask_pc = "wrapper"
    /\ ~ShouldRetry(raised)
    /\ result' = [kind |-> "return", value |-> result.value]
    /\ ask_pc' = "idle"
    /\ UNCHANGED <<attempt, effects, raised, asks, plan, temp_file_path>>
    /\ UNCHANGED <<rateVars, grpVars, sessVars, runVars>>
    /\ UNCHANGED spawns
    /\ UNCHANGED <<selVars, thrVars>>

\* the retry wrapper: the attempt raised and attempts remain: sleep, run again
AskRetry ==
    /\ ask_pc = "wrapper"
    /\ ShouldRetry(raised)
    /\ ~Stop(attempt)
    /\ now' = now + Wait(attempt)
    /\ attempt' = attempt + 1
    /\ effects' = Append(effects, <<>>)
    /\ ask_pc' = "check_rate"
    /\ UNCHANGED <<raised, result, asks, plan, temp_file_path>>
    /\ UNCHANGED <<api_rate_limit, api_calls, temp_files, disk, rate_log, grpVars, sessVars, runVars>>
    /\ UNCHANGED <<monitoring, monitor_threads>>
    /\ UNCHANGED spawns
    /\ UNCHANGED <<selVars, thrVars>>

\* the retry wrapper: the last attempt raised; reraise=True raises its exception
AskReraise ==
    /\ ask_pc = "wrapper"
    /\ ShouldRetry(raised)
    /\ Stop(attempt)
    /\ result' = [kind |-> "raise", exc |-> raised]
    /\ ask_pc' = "idle"
    /\ UNCHANGED <<attempt, effects, raised, asks, plan, temp_file_path>>
    /\ UNCHANGED <<rateVars, grpVars, sessVars, runVars>>
    /\ UNCHANGED spawns
    /\ UNCHANGED <<selVars, thrVars>>

\* a new AiderInterrogator with its own ResourceManager, whose monitor thread
\* the constructor has started; no call made yet
AskInit ==
    /\ pc = "start"
    /\ enable_black = FALSE
    /\ issues = <<>>
    /\ op = "none"
    /\ strategy = <<>>
    /\ grouped = <<>>
    /\ window_size = 0
    /\ aider_calls = <<>>
    /\ commits = <<>>
    /\ now = 0
    /\ api_rate_limit \in 1..MaxLimit
    /\ api_calls = <<>>
    /\ temp_files = {}
    /\ disk = <<>>
    /\ rate_log = <<>>
    /\ ask_pc = "idle"
    /\ attempt = 0
    /\ effects = <<>>
    /\ raised = NoError
    /\ result = [kind |-> "none"]
    /\ asks = 0
    /\ plan = <<>>
    /\ temp_file_path = <<>>
    /\ sess_pc = "idle"
    /\ session = "none"
    /\ child = NoChild
    /\ elapsed = 0
    /\ reads = <<>>
    /\ capture_output = FALSE
    /\ response = <<>>
    /\ stdin = EmptyPipe
    /\ signals = <<>>
    /\ sess_result = [kind |-> "none"]
    /\ run_pc = "idle"
    /\ config = [autopep8_fix |-> FALSE, enable_black |-> FALSE]
    /\ file_no = 0
    /\ gate = [pre |-> TRUE, post |-> TRUE]
    /\ file_issues = <<>>
    /\ dirty = FALSE
    /\ trace = <<>>
    /\ exit_status = -1
    /\ monitoring = TRUE
    /\ monitor_threads = <<"running">>
    /\ spawns = <<>>
    /\ listed = <<>>
    /\ python_files = <<>>
    /\ cursor = 0
    /\ processed = <<>>
    /\ limits = [line_count_min |-> 1, line_count_max |-> 2]
    /\ threads = NoThreads
    /\ cleanup_log = <<>>

AskNext ==
    \/ \E p \in Plans : StartAsk(p)
    \/ AskCheckRateLimit
    \/ AskCreateTempFile
    \/ \E d \in SessionDurations : AskRunSession(d)
    \/ AskFinally
    \/ AskReturn
    \/ AskRetry
    \/ AskReraise
    \/ \E i \in 1..MaxThreads, high \in BOOLEAN : _monitor_resources(i, high)

AskSpec == AskInit /\ [][AskNext]_vars

\* one AiderInterrogator whose caller uses both of its methods, ask_question
\* and the inherited run_aider, one call at a time, and the monitor thread
\* its constructor started
InterrogatorNext ==
    \/ \E p \in Plans : StartAsk(p)
    \/ AskCheckRateLimit
    \/ AskCreateTempFile
    \/ \E d \in SessionDurations : AskRunSession(d)
    \/ AskFinally
    \/ AskReturn
    \/ AskRetry
    \/ AskReraise
    \/ \E d \in SessionDurations : run_aider(d)
    \/ \E i \in 1..MaxThreads, high \in BOOLEAN : _monitor_resources(i, high)

InterrogatorSpec == AskInit /\ [][InterrogatorNext]_vars

----------------------------------------------------------------------------
(* Claims about ask_question and its retry wrapper (under AskSpec) *)

\* the decorated call has ended
AskFinished == ask_pc = "idle" /\ result.kind # "none"

\* errors the specification calls transient: a timeout, a process I/O error
Transient == {"timeout", "io_error"}

Count(row, e) == Cardinality({i \in 1..Len(row) : row[i] = e})

\* the rate limiter refused no attempt of the call, so every session was run
NoAttemptRefused == \A k \in 1..Len(effects) : ~Has(effects[k], "rate_rejected")

\* the number of times the body of ask_question was entered
BodyExecutions == Cardinality({k \in 1..Len(effects) : effects[k] # <<>>})

\* C7: when the session fails with a transient error on the first two
\* attempts and succeeds on the third, ask_question returns the third
\* attempt's (trimmed) response and its body has run exactly 3 times.
C7_SucceedsOnThird ==
    ( /\ AskFinished
      /\ plan[1] \in Transient /\ plan[2] \in Transient /\ plan[3] = "ok"
      /\ NoAttemptRefused )
    => /\ result = [kind |-> "return", value |-> <<"r", "3">>]
       /\ attempt = 3
       /\ BodyExecutions = 3
       /\ \A k \in 1..3 : Count(effects[k], "spawn") = 1

\* C7 witness: a timeout, then a read error, then a response
C7_Witness ==
    /\ AskFinished
    /\ plan = <<"timeout", "io_error", "ok">>
    /\ NoAttemptRefused
    /\ result.kind = "return"

\* C8 (as claimed): when the session fails with a transient error on every
\* attempt, ask_question makes exactly 3 attempts and then fails with
\* MaxRetriesExceededError.
C8_MaxRetriesExceeded ==
    ( /\ AskFinished
      /\ \A k \in 1..3 : plan[k] \in Transient
      /\ NoAttemptRefused )
    => /\ BodyExecutions = 3
       /\ result.kind = "raise"
       /\ result.exc.type = "MaxRetriesExceededError"

\* C9 (as claimed): an attempt that fails with a rate-limit rejection is the
\* only attempt: the wrapper does not run the body again after it.
C9_NoRetryAfterRejection ==
    \A k \in 1..Len(effects) : Has(effects[k], "rate_rejected") => k = Len(effects)

\* C10: in an attempt whose check_rate_limit returned False the body raises
\* AiderProcessError ("API rate limit exceeded") and has no other effect: no
\* temp file, no child process, no stored record; in every attempt the rate
\* check comes before every other effect; and a call whose last attempt was
\* refused ends with that AiderProcessError.
C10_RateCheckFirst ==
    /\ \A k \in 1..Len(effects) :
          /\ effects[k] # <<>> => effects[k][1] \in {"rate_ok", "rate_rejected"}
          /\ Has(effects[k], "rate_rejected") => effects[k] = <<"rate_rejected">>
    /\ ( /\ effects # <<>>
         /\ effects[Len(effects)] = <<"rate_rejected">> )
       => /\ raised = [type |-> "AiderProcessError", cause |-> "rate_limit"]
          /\ ask_pc \in {"wrapper", "idle"}
          /\ AskFinished => result = [kind |-> "raise", exc |-> raised]

\* C10 witness: the first attempt of a call is refused, and the call has ended
\* with the rate-limit error
C10_Witness ==
    /\ AskFinished
    /\ effects[1] = <<"rate_rejected">>
    /\ result = [kind |-> "raise",
                 exc |-> [type |-> "AiderProcessError", cause |-> "rate_limit"]]

\* the HTTP status the web layer answers with for an exception of ask_question
handle_analyzer_error(e) ==
    CASE e.type = "AiderTimeoutError"       -> 408
      [] e.type = "CodeValidationError"     -> 400
      [] e.type = "AiderProcessError"       -> 500
      [] e.type = "MaxRetriesExceededError" -> 503
      [] e.type = "ValueError"              -> 400
      [] OTHER                              -> 500

\* C12: when the session of the last attempt raised the timeout error, the
\* error that leaves ask_question is AiderTimeoutError, and the web layer maps
\* it to 408, not to the 500 of a process failure.
C12_TimeoutReachesCaller ==
    (AskFinished /\ result.kind = "raise" /\ result.exc.cause = "AiderTimeoutError")
    => /\ result.exc.type = "AiderTimeoutError"
       /\ handle_analyzer_error(result.exc) = 408

----------------------------------------------------------------------------
(* One child session: the stdout/stdin loop of                             *)
(* AiderInterrogator._process_aider_output (ask) and of                    *)
(* AiderRunner.run_aider (fix)                                             *)

MaxScript == 3   \* longest child output explored, in lines
MaxReads  == 4   \* readline calls explored in one session

GraceSecs == 5

QuestionMark == <<"?">>
UseHelp == <<"U", "s", "e", " ", "/", "h", "e", "l", "p">>              \* "Use /help"
AttemptFix == <<"A", "t", "t", "e", "m", "p", "t", " ", "t", "o", " ", "f",
                "i", "x", " ", "l", "i", "n", "t", " ", "e", "r", "r", "o",
                "r", "s", "?">>                  \* "Attempt to fix lint errors?"
AllowCreation == <<"A", "l", "l", "o", "w", " ", "c", "r", "e", "a", "t",
                   "i", "o", "n", " ", "o", "f", " ", "n", "e", "w", " ",
                   "f", "i", "l", "e", "?">>     \* "Allow creation of new file?"
ToTheChat == <<"t", "o", " ", "t", "h", "e", " ", "c", "h", "a", "t", "?">> \* "to the chat?"
AddWord == <<"A", "d", "d">>                                            \* "Add"
\* "Allow edits to file that has not been added to the chat?"
AllowEdits == <<"A", "l", "l", "o", "w", " ", "e", "d", "i", "t", "s", " ",
                "t", "o", " ", "f", "i", "l", "e", " ", "t", "h", "a", "t",
                " ", "h", "a", "s", " ", "n", "o", "t", " ", "b", "e", "e",
                "n", " ", "a", "d", "d", "e", "d", " ", "t", "o", " ", "t",
                "h", "e", " ", "c", "h", "a", "t", "?">>
YesAnswer == <<"Y", "e", "s", "\n">>                                    \* "Yes\n"
NoAnswer  == <<"N", "o", "\n">>                                         \* "No\n"

\* stdout lines of the child of an ask session
O1 == <<"h", "i", "\n">>                                                \* "hi\n"
O2 == UseHelp \o <<"\n">>                                               \* "Use /help\n"
O3 == <<"o", "k", "?", "\n">>                                           \* "ok?\n"
O4 == UseHelp \o <<"?", "\n">>                                          \* "Use /help?\n"
AskLines == {O1, O2, O3, O4}

\* stdout lines of the child of a fix session
F1 == AttemptFix \o <<"\n">>
F2 == AllowCreation \o <<"\n">>
F3 == <<"A", "d", "d", " ", "a", ".", "p", "y", " ">> \o ToTheChat \o <<"\n">> \* "Add a.py to the chat?\n"
F4 == AllowEdits \o <<"\n">>
F5 == <<"S", "e", "n", "d", " ">> \o ToTheChat \o <<"\n">>              \* "Send to the chat?\n"
F6 == <<"A", "d", "d", " ", "a", ".", "p", "y", "?", "\n">>             \* "Add a.py?\n"
F7 == <<"d", "o", "n", "e", "\n">>                                      \* "done\n"
FixLines == {F1, F2, F3, F4, F5, F6, F7}

\* every output of at most MaxScript lines
Scripts(lines) == UNION {[1..k -> lines] : k \in 0..MaxScript}

\* after its last line the child exits ("exit"), closes stdout and stays
\* alive ("eof"), or stays alive with stdout open and prints nothing ("silent")
Endings == {"exit", "eof", "silent"}

\* SIGTERM ends the child within the grace period, or the child ignores it
TermReactions == {"exits", "ignores"}

\* once its three pipes are closed a child that is still alive ends, or
\* stays alive
CloseReactions == {"exits", "stays"}

\* what the child writes to its stderr pipe after its last line and before
\* it closes stdout: less than the pipe holds ("fits"), or more ("floods").
\* Both sessions read stderr only after their loop, so the write of a
\* flooding child does not return while the loop runs
ErrVolumes == {"fits", "floods"}

\* the children a session may face; status is the child's exit status;
\* grandchild: the child has started a process of its own that keeps running
\* in the child's session
Children(s) ==
    IF s = "ask"
    THEN {[script |-> sc, ending |-> e, on_terminate |-> t, on_close |-> c,
           grandchild |-> g, stderr |-> v, status |-> 0] :
              sc \in Scripts(AskLines), e \in Endings, t \in TermReactions,
              c \in CloseReactions, g \in BOOLEAN, v \in ErrVolumes}
    ELSE {[script |-> sc, ending |-> e, on_terminate |-> "exits",
           on_close |-> c, grandchild |-> FALSE, stderr |-> v, status |-> st] :
              sc \in Scripts(FixLines), e \in Endings, c \in CloseReactions,
              v \in ErrVolumes, st \in {0, 1}}

\* seconds one readline call may take
ReadSecs == {QuickSecs, SessionTimeout + 1}

\* stdin.write(text): the text is buffered, tagged with the read it answers
Write(pipe, n, text) ==
    [pipe EXCEPT !.buffer = Append(@, [read |-> n, text |-> text])]

\* stdin.flush(): the buffered text reaches the child
Flush(pipe) == [buffer |-> <<>>, sent |-> pipe.sent \o pipe.buffer]

\* what the next readline returns: the child's next line, or "" at end of file
NextOutput == 
    IF Len(reads) < Len(child.script) THEN child.script[Len(reads) + 1] ELSE <<>>

\* process.poll() is not None after that readline
Exited == Len(reads) >= Len(child.script) /\ child.ending = "exit"

\* readline returns at all: it does not once the child prints nothing more
\* and keeps stdout open, because it is silent or because it is itself
\* blocked writing to the stderr pipe that the loop does not read
ReadReturns ==
    \/ Len(reads) < Len(child.script)
    \/ child.ending # "silent" /\ child.stderr = "fits"

\* the body of the ask loop for the n-th line read (`if output:` and below)
AskLine(st, output, n) ==
    IF output = <<>> THEN st
    ELSE IF Contains(output, UseHelp)
    THEN [st EXCEPT !.capture_output = TRUE]
    ELSE [capture_output |-> st.capture_output,
          response |-> IF st.capture_output THEN st.response \o output
                                            ELSE st.response,
          stdin |-> IF Contains(output, QuestionMark)
                    THEN Flush(Write(st.stdin, n, NoAnswer))
                    ELSE st.stdin]

\* faulty variant: the "allow edits" prompt is not known
FixAnswerNoEdits(output) ==
    IF Contains(output, AttemptFix) THEN YesAnswer
    ELSE IF Contains(output, AllowCreation) THEN YesAnswer
    ELSE IF Contains(output, ToTheChat) /\ Contains(output, AddWord) THEN YesAnswer
    ELSE NoAnswer

\* the answer run_aider picks for a line that contains '?'
FixAnswer(output) ==
    IF Contains(output, AttemptFix) THEN YesAnswer
    ELSE IF Contains(output, AllowCreation) THEN YesAnswer
    ELSE IF Contains(output, ToTheChat) /\ Contains(output, AddWord) THEN YesAnswer
    ELSE IF Contains(output, AllowEdits) THEN YesAnswer
    ELSE NoAnswer

\* the body of the fix loop for the n-th line read
FixLine(pipe, output, n) ==
    IF output # <<>> /\ Contains(output, QuestionMark)
    THEN Flush(Write(pipe, n, FixAnswer(output)))
    ELSE pipe

\* process.wait(timeout=5) after terminate(): returns once the child has
\* ended, raises TimeoutExpired when it is still alive after the grace period
WaitAfterTerminate(c) ==
    IF c.on_terminate = "exits" THEN "ended" ELSE "TimeoutExpired"

\* Popen.__exit__ when an exception leaves the `with` block of
\* _run_aider_process: the pipes are closed, then wait() without a timeout.
\* Closing stderr ends the write of a child that was blocked on that pipe.
\* wait returns once the child has ended: it ended on the signal, it ends by
\* itself after its output, or it ends when its pipes are closed
WaitAtExit(c, sigs) ==
    IF \/ Has(sigs, "kill")
       \/ Has(sigs, "terminate") /\ c.on_terminate = "exits"
       \/ c.ending = "exit"
       \/ c.on_close = "exits"
    THEN "ended" ELSE "blocks"

\* one pass of the ask loop whose deadline check passes: readline, the end
\* test, then the loop body
AskReadLine(d) ==
    /\ sess_pc = "loop"
    /\ session = "ask"
    /\ ~(elapsed > SessionTimeout)
    /\ Len(reads) < MaxReads
    /\ ReadReturns
    /\ LET output == NextOutput
           n      == Len(reads) + 1
           st     == AskLine([capture_output |-> capture_output,
                              response |-> response, stdin |-> stdin], output, n)
       IN  /\ reads' = Append(reads, [output |-> output, secs |-> d])
           /\ elapsed' = elapsed + d
           /\ IF output = <<>> /\ Exited
              THEN /\ sess_pc' = "returned"
                   /\ sess_result' = [kind |-> "return", value |-> response]
                   /\ UNCHANGED <<capture_output, response, stdin>>
              ELSE /\ capture_output' = st.capture_output
                   /\ response' = st.response
                   /\ stdin' = st.stdin
                   /\ UNCHANGED <<sess_pc, sess_result>>
    /\ UNCHANGED <<session, child, signals>>
    /\ UNCHANGED <<grpVars, rateVars, askVars, runVars>>
    /\ UNCHANGED <<selVars, thrVars>>

\* readline raises IOError / OSError: re-raised as AiderProcessError
AskReadError ==
    /\ sess_pc = "loop"
    /\ session = "ask"
    /\ ~(elapsed > SessionTimeout)
    /\ Len(reads) < MaxReads
    /\ sess_pc' = "with_exit"
    /\ sess_result' = [kind |-> "raise",
                       exc |-> [type |-> "AiderProcessError", cause |-> "OSError"]]
    /\ UNCHANGED <<session, child, elapsed, reads, capture_output, response,
                   stdin, signals>>
    /\ UNCHANGED <<grpVars, rateVars, askVars, runVars>>
    /\ UNCHANGED <<selVars, thrVars>>

\* the deadline check at the top of the ask loop fires: terminate(),
\* wait(timeout=5), then AiderTimeoutError.  wait returns only once the child
\* has ended, so poll() is not None after it and kill() is never sent; for a
\* child still alive after the grace period wait raises TimeoutExpired.
\* Either exception then leaves the `with` block
AskDeadline ==
    /\ sess_pc = "loop"
    /\ session = "ask"
    /\ elapsed > SessionTimeout
    /\ signals' = Append(signals, "terminate")
    /\ sess_pc' = "with_exit"
    /\ IF WaitAfterTerminate(child) = "ended"
       THEN /\ sess_result' = [kind |-> "raise",
                               exc |-> [type |-> "AiderTimeoutError", cause |-> "none"]]
            /\ UNCHANGED elapsed
       ELSE /\ sess_result' = [kind |-> "raise",
                               exc |-> [type |-> "TimeoutExpired", cause |-> "none"]]
            /\ elapsed' = elapsed + GraceSecs
    /\ UNCHANGED <<session, child, reads, capture_output, response, stdin>>
    /\ UNCHANGED <<grpVars, rateVars, askVars, runVars>>
    /\ UNCHANGED <<selVars, thrVars>>

\* the ask loop reads a prompt line and the write or flush of its answer
\* fails (the child has closed its stdin): the write is not inside any try of
\* the loop, so BrokenPipeError leaves _process_aider_output; the text stays
\* in the buffer of the pipe
AskWriteFails(d) ==
    /\ sess_pc = "loop"
    /\ session = "ask"
    /\ ~(elapsed > SessionTimeout)
    /\ Len(reads) < MaxReads
    /\ ReadReturns
    /\ LET output == NextOutput
           n      == Len(reads) + 1
       IN  /\ output # <<>>
           /\ ~Contains(output, UseHelp)
           /\ Contains(output, QuestionMark)
           /\ reads' = Append(reads, [output |-> output, secs |-> d])
           /\ elapsed' = elapsed + d
           /\ response' = IF capture_output THEN response \o output ELSE response
           /\ stdin' = Write(stdin, n, NoAnswer)
    /\ sess_pc' = "with_exit"
    /\ sess_result' = [kind |-> "raise",
                       exc |-> [type |-> "BrokenPipeError", cause |-> "none"]]
    /\ UNCHANGED <<session, child, capture_output, signals>>
    /\ UNCHANGED <<grpVars, rateVars, askVars, runVars>>
    /\ UNCHANGED <<selVars, thrVars>>

\* the fix loop reads a prompt line and the write or flush of its answer
\* fails: BrokenPipeError leaves the loop and the `with` block and is caught
\* by `except OSError`, which logs it and returns 1
FixWriteFails ==
    /\ sess_pc = "loop"
    /\ session = "fix"
    /\ Len(reads) < MaxReads
    /\ ReadReturns
    /\ LET output == NextOutput
           n      == Len(reads) + 1
       IN  /\ output # <<>>
           /\ Contains(output, QuestionMark)
           /\ reads' = Append(reads, [output |-> output, secs |-> QuickSecs])
           /\ stdin' = Write(stdin, n, FixAnswer(output))
    /\ sess_pc' = "with_exit"
    /\ sess_result' = [kind |-> "return", value |-> 1]
    /\ UNCHANGED <<session, child, elapsed, capture_output, response, signals>>
    /\ UNCHANGED <<grpVars, rateVars, askVars, runVars>>
    /\ UNCHANGED <<selVars, thrVars>>

\* control leaves the `with` block on an exception: Popen.__exit__ closes the
\* pipes and waits for the child; the exception goes on (to the caller, or to
\* the except clause of run_aider that returns 1) once wait returns
PopenExit ==
    /\ sess_pc = "with_exit"
    /\ sess_pc' = IF WaitAtExit(child, signals) = "blocks" THEN "blocked"
                  ELSE IF sess_result.kind = "return" THEN "returned"
                  ELSE "raised"
    /\ UNCHANGED <<session, child, elapsed, reads, capture_output, response,
                   stdin, signals, sess_result>>
    /\ UNCHANGED <<grpVars, rateVars, askVars, runVars>>
    /\ UNCHANGED <<selVars, thrVars>>

\* readline on a child that prints nothing more and keeps its stdout open
\* (a silent child, or one blocked on its full stderr pipe):
\* the call does not return, and nothing in either loop interrupts it (the
\* deadline of the ask loop is tested only between two readline calls)
ReadLineBlocks ==
    /\ sess_pc = "loop"
    /\ session = "ask" => ~(elapsed > SessionTimeout)
    /\ ~ReadReturns
    /\ sess_pc' = "blocked"
    /\ UNCHANGED <<session, child, elapsed, reads, capture_output, response,
                   stdin, signals, sess_result>>
    /\ UNCHANGED <<grpVars, rateVars, askVars, runVars>>
    /\ UNCHANGED <<selVars, thrVars>>

\* one pass of the fix loop: readline, the end test, then the loop body;
\* run_aider checks no deadline
FixReadLine ==
    /\ sess_pc = "loop"
    /\ session = "fix"
    /\ Len(reads) < MaxReads
    /\ ReadReturns
    /\ LET output == NextOutput
           n      == Len(reads) + 1
       IN  /\ reads' = Append(reads, [output |-> output, secs |-> QuickSecs])
           /\ IF output = <<>> /\ Exited
              THEN /\ sess_pc' = "returned"
                   /\ sess_result' = [kind |-> "return", value |-> child.status]
                   /\ UNCHANGED stdin
              ELSE /\ stdin' = FixLine(stdin, output, n)
                   /\ UNCHANGED <<sess_pc, sess_result>>
    /\ UNCHANGED <<session, child, elapsed, capture_output, response, signals>>
    /\ UNCHANGED <<grpVars, rateVars, askVars, runVars>>
    /\ UNCHANGED <<selVars, thrVars>>

\* a session that has just entered its loop, facing any child; the other
\* components are not used
SessInit ==
    /\ pc = "start"
    /\ enable_black = FALSE
    /\ issues = <<>>
    /\ op = "none"
    /\ strategy = <<>>
    /\ grouped = <<>>
    /\ window_size = 0
    /\ aider_calls = <<>>
    /\ commits = <<>>
    /\ now = 0
    /\ api_rate_limit = 1
    /\ api_calls = <<>>
    /\ temp_files = {}
    /\ disk = <<>>
    /\ rate_log = <<>>
    /\ ask_pc = "idle"
    /\ attempt = 0
    /\ effects = <<>>
    /\ raised = NoError
    /\ result = [kind |-> "none"]
    /\ asks = 0
    /\ plan = <<>>
    /\ temp_file_path = <<>>
    /\ sess_pc = "loop"
    /\ session \in {"ask", "fix"}
    /\ child \in Children(session)
    /\ elapsed = 0
    /\ reads = <<>>
    /\ capture_output = FALSE
    /\ response = <<>>
    /\ stdin = EmptyPipe
    /\ signals = <<>>
    /\ sess_result = [kind |-> "none"]
    /\ run_pc = "idle"
    /\ config = [autopep8_fix |-> FALSE, enable_black |-> FALSE]
    /\ file_no = 0
    /\ gate = [pre |-> TRUE, post |-> TRUE]
    /\ file_issues = <<>>
    /\ dirty = FALSE
    /\ trace = <<>>
    /\ exit_status = -1
    /\ monitoring = FALSE
    /\ monitor_threads = <<>>
    /\ spawns = <<>>
    /\ listed = <<>>
    /\ python_files = <<>>
    /\ cursor = 0
    /\ processed = <<>>
    /\ limits = [line_count_min |-> 1, line_count_max |-> 2]
    /\ threads = NoThreads
    /\ cleanup_log = <<>>

SessNext ==
    \/ \E d \in ReadSecs : AskReadLine(d)
    \/ AskReadError
    \/ AskDeadline
    \/ \E d \in ReadSecs : AskWriteFails(d)
    \/ FixWriteFails
    \/ PopenExit
    \/ ReadLineBlocks
    \/ FixReadLine

SessSpec == SessInit /\ [][SessNext]_vars

\* the session's thread keeps running: every step of the loop that can be
\* taken is taken.  A read error is an event of the environment and is not
\* required to happen
SessFairness ==
    /\ WF_vars(\E d \in ReadSecs : AskReadLine(d))
    /\ WF_vars(AskDeadline)
    /\ WF_vars(PopenExit)
    /\ WF_vars(ReadLineBlocks)
    /\ WF_vars(FixReadLine)

SessLiveSpec == SessSpec /\ SessFairness

----------------------------------------------------------------------------
(* Claims about one session *)

SessEnded == sess_pc \in {"returned", "raised"}

\* the child has exited: the last readline saw the end of file of an ended child
ChildExited == Len(reads) > Len(child.script) /\ child.ending = "exit"

\* the reads that returned a line
LineReads == {i \in 1..Len(reads) : reads[i].output # <<>>}

\* the answers that reached the child for the i-th read
AnswersTo(i) == SelectSeq(stdin.sent, LAMBDA a : a.read = i)

\* the answers written for the i-th read, whether or not they reached the child
WrittenFor(i) == SelectSeq(stdin.sent \o stdin.buffer, LAMBDA a : a.read = i)

\* C11: if every output read took longer than the timeout and the child had
\* not exited, the ask session raises AiderTimeoutError and has sent the
\* terminate signal exactly once.
C11_TimeoutTerminatesOnce ==
    (/\ session = "ask"
     /\ SessEnded
     /\ reads # <<>>
     /\ \A i \in 1..Len(reads) : reads[i].secs > SessionTimeout
     /\ ~ChildExited)
    => /\ sess_result.kind = "raise"
       /\ sess_result.exc.type = "AiderTimeoutError"
       /\ Count(signals, "terminate") = 1

\* what the reads returned, in order
Outputs == [i \in 1..Len(reads) |-> reads[i].output]

HasMarker(o) == Contains(o, UseHelp)

\* index of the first read that returned a line containing the marker, 0 if none
FirstMarker ==
    IF \E i \in 1..Len(reads) : HasMarker(Outputs[i])
    THEN CHOOSE i \in 1..Len(reads) :
             HasMarker(Outputs[i]) /\ \A j \in 1..(i - 1) : ~HasMarker(Outputs[j])
    ELSE 0

\* what was read after the first marker line
AfterMarker ==
    IF FirstMarker = 0 THEN <<>> ELSE SubSeq(Outputs, FirstMarker + 1, Len(reads))

\* C13: the captured response is the in-order concatenation of every
\* non-empty line read after the first line containing "Use /help"; the lines
\* before it and the marker line itself are excluded.
C13_EveryLineAfterMarker ==
    session = "ask" =>
        /\ response = Flatten(AfterMarker)
        /\ sess_pc = "returned" => sess_result.value = Flatten(AfterMarker)

\* C14: in the ask session every non-empty line that contains '?' is answered
\* with exactly one "No\n", written and flushed before the next line is read,
\* whether or not capture has started and whatever else the line contains;
\* a line without '?' causes no write.
C14_AnswerEveryPrompt ==
    session = "ask" =>
        /\ sess_pc = "loop" => stdin.buffer = <<>>
        /\ \A i \in LineReads :
               IF Contains(Outputs[i], QuestionMark)
               THEN /\ Len(WrittenFor(i)) = 1
                    /\ WrittenFor(i)[1].text = NoAnswer
               ELSE WrittenFor(i) = <<>>

\* the fix-session lines that are known prompts: attempt to fix lint errors,
\* allow creation of new file, add ... to the chat, allow edits to a file not
\* added to the chat
KnownPromptLines == {F1, F2, F3, F4}

\* C15: in the fix session every line containing '?' gets exactly one answer,
\* "Yes" for a known prompt and "No" for any other prompt, written before the
\* next line is read; a line without '?' gets no answer.
C15_FixerAnswers ==
    session = "fix" =>
        /\ sess_pc = "loop" => stdin.buffer = <<>>
        /\ \A i \in LineReads :
               IF Contains(Outputs[i], QuestionMark)
               THEN /\ Len(WrittenFor(i)) = 1
                    /\ WrittenFor(i)[1].text =
                           IF Outputs[i] \in KnownPromptLines THEN YesAnswer
                                                              ELSE NoAnswer
               ELSE WrittenFor(i) = <<>>

\* C15 witness: a fix session has returned after answering the "allow edits"
\* prompt with Yes, another prompt with No, and reading a line without '?'
C15_Witness ==
    /\ session = "fix"
    /\ sess_pc = "returned"
    /\ \E i, j, k \in LineReads :
           /\ Outputs[i] = F4 /\ AnswersTo(i) = <<[read |-> i, text |-> YesAnswer]>>
           /\ Outputs[j] \in {F5, F6} /\ AnswersTo(j) = <<[read |-> j, text |-> NoAnswer]>>
           /\ ~Contains(Outputs[k], QuestionMark)

\* the deadline check of the ask loop has fired
TimedOut == session = "ask" /\ Has(signals, "terminate")

\* the child process is still running
ChildAlive ==
    /\ sess_pc # "idle"
    /\ ~ChildExited
    /\ ~Has(signals, "kill")
    /\ ~(Has(signals, "terminate") /\ child.on_terminate = "exits")
    /\ ~(sess_pc \in {"raised", "returned"} /\ WaitAtExit(child, signals) = "ended")

\* the child is blocked writing to stderr and the session is blocked in
\* readline on the child's stdout
StderrDeadlock ==
    /\ sess_pc = "blocked"
    /\ child.stderr = "floods"
    /\ Len(reads) = Len(child.script)
    /\ signals = <<>>

\* C40: a child that writes more than the pipe holds to stderr before closing
\* stdout, and that exits after its output, does not leave the session and
\* itself blocked on each other: the session is never stuck in readline while
\* the child is stuck in its stderr write.
C40_NoStderrDeadlock ==
    (child.stderr = "floods" /\ child.ending = "exit") => ~StderrDeadlock

\* a child that exits after its output and whose stderr output fits in the
\* pipe never leaves its session blocked (holds under SessSpec)
QuietChildNeverBlocks ==
    (child.stderr = "fits" /\ child.ending = "exit") => sess_pc # "blocked"

\* C29: on timeout of a session whose child ignores the terminate signal,
\* kill is sent after the grace period, the session fails, the error that
\* leaves it is AiderTimeoutError, and the child is not alive at that point.
C29_KillAfterGrace ==
    (TimedOut /\ child.on_terminate = "ignores")
    => /\ signals = <<"terminate", "kill">>
       /\ sess_pc \in {"with_exit", "raised"}
       /\ sess_result.exc.type = "AiderTimeoutError"
       /\ sess_pc = "raised" => ~ChildAlive

\* the read itself has failed (IOError / OSError), which is not a hang
ReadFailed == sess_result.kind = "raise" /\ sess_result.exc.cause = "OSError"

\* C31: an ask session that enters readline on a child that prints nothing,
\* keeps its stdout open and does not exit still ends with AiderTimeoutError
\* (unless the read fails with an error of its own).
C31_SilentChildTimesOut ==
    (/\ session = "ask" /\ sess_pc = "loop" /\ ~(elapsed > SessionTimeout)
     /\ ~ReadReturns /\ child.ending = "silent" /\ child.stderr = "fits")
    ~> \/ sess_pc = "raised" /\ sess_result.exc.type = "AiderTimeoutError"
       \/ ReadFailed

\* C32: every fix session ends: run_aider returns whatever the child does.
C32_FixSessionReturns ==
    (session = "fix" /\ sess_pc = "loop") ~> (sess_pc = "returned")

\* the write or flush of an answer has failed: its text is left in the buffer
WriteFailed == stdin.buffer # <<>>

\* C33: a failed write or flush of an answer is not raised and does not end
\* the session: the session goes on reading, and when it ends it returns its
\* normal result after the child's exit.
C33_AnswerBestEffort ==
    (sess_pc # "idle" /\ WriteFailed)
    => /\ sess_pc \in {"loop", "returned"}
       /\ sess_result.kind # "raise"
       /\ sess_pc = "returned"
              => /\ ChildExited
                 /\ sess_result.value = IF session = "ask" THEN response
                                                           ELSE child.status

\* the processes a signal sent through the Popen object reaches:
\* terminate() and kill() signal the pid of the child, not its process group
Reaches(sig) == IF sig \in {"terminate", "kill"} THEN {"child"} ELSE {}

\* a process started by the child is still running
GrandchildAlive ==
    /\ child.grandchild
    /\ \A i \in 1..Len(signals) : "grandchild" \notin Reaches(signals[i])

\* C30: once a session has failed with the timeout error no process started
\* by the child is left alive: the termination signal reached the whole
\* process group of the child.
C30_GroupTerminated ==
    (TimedOut /\ sess_pc = "raised" /\ sess_result.exc.type = "AiderTimeoutError")
    => ~GrandchildAlive

----------------------------------------------------------------------------
(* Agent.run over the selected files and FileProcessor.process_file        *)

MaxFiles == 2   \* selected files of one batch run

\* one step of the current process_file call: what ran (step), its outcome
\* (arg), the fix request of a session, and whether the file has uncommitted
\* changes after the step
Event(step, arg, request, d) ==
    [step |-> step, arg |-> arg, request |-> request, dirty |-> d]

\* the state of the file under processing with one more step recorded
Log(fs, step, arg) ==
    [fs EXCEPT !.trace = Append(@, Event(step, arg, <<>>, fs.dirty))]

\* GitManager.commit_changes: commits when git status reports changes of the
\* file; a failing git command is logged and leaves the changes uncommitted
commit_changes(fs, message, ok) ==
    IF ~fs.dirty THEN fs
    ELSE IF ok THEN Log([fs EXCEPT !.dirty = FALSE], "commit", message)
    ELSE Log(fs, "commit_failed", message)

\* a formatter changes the file, leaves it unchanged, or its command fails
ToolOutcomes == {"changed", "unchanged", "failed"}

\* FileProcessor.run_autopep8: commit_changes after a successful run; a
\* failing command is caught and logged
run_autopep8(fs, outcome, ok) ==
    IF outcome = "failed" THEN Log(fs, "autopep8", outcome)
    ELSE commit_changes(
             Log([fs EXCEPT !.dirty = @ \/ outcome = "changed"], "autopep8", outcome),
             "autopep8", ok)

\* FileProcessor.run_black: the same with black
run_black(fs, outcome, ok) ==
    IF outcome = "failed" THEN Log(fs, "black", outcome)
    ELSE commit_changes(
             Log([fs EXCEPT !.dirty = @ \/ outcome = "changed"], "black", outcome),
             "black", ok)

MaxFailAt == 1   \* the sessions of a file, counted from the first, that may fail

\* how a fix session ends: the child's exit status, or the exception that
\* run_aider catches (executable not found; an OS error in the session)
SessionEnds == {"status_0", "status_1", "FileNotFoundError", "OSError"}

\* what run_aider returns: the child's status, 1 after a caught exception
ReturnCode(end) == IF end = "status_0" THEN 0 ELSE 1

\* no session fails, or the session numbered `at` ends in the way `how`
SessionFailures ==
    {[at |-> 0, how |-> "status_0"]}
    \cup {[at |-> k, how |-> h] : k \in 1..MaxFailAt, h \in SessionEnds \ {"status_0"}}

\* how the session that is `at` steps away from its failure ends
EndOf(fail) == IF fail.at = 1 THEN fail.how ELSE "status_0"

\* the failure seen from the next session
Later(fail) == [fail EXCEPT !.at = IF @ > 0 THEN @ - 1 ELSE -1]

\* faulty variant: every child is started before any of them is waited for
RECURSIVE RunSessionsDetached(_, _, _, _)
RunSessionsDetached(fs, calls, edits, fail) ==
    IF calls = <<>> THEN fs
    ELSE LET d == fs.dirty \/ (edits /\ EndOf(fail) # "FileNotFoundError")
             rest == RunSessionsDetached(
                         [dirty |-> d,
                          trace |-> Append(fs.trace, Event("run_aider", file_no, calls[1], d))],
                         Tail(calls), edits, Later(fail))
         IN  Log(rest, "child_exited", EndOf(fail))

\* faulty variant: the sessions of the file stop at the first one that
\* returns a non-zero code
RECURSIVE RunSessionsUntilFailure(_, _, _, _)
RunSessionsUntilFailure(fs, calls, edits, fail) ==
    IF calls = <<>> THEN fs
    ELSE LET d == fs.dirty \/ (edits /\ EndOf(fail) # "FileNotFoundError")
             after == Log([dirty |-> d,
                           trace |-> Append(fs.trace,
                                            Event("run_aider", file_no, calls[1], d))],
                          "child_exited", EndOf(fail))
         IN  IF ReturnCode(EndOf(fail)) # 0 THEN after
             ELSE RunSessionsUntilFailure(after, Tail(calls), edits, Later(fail))

\* the run_aider calls of _process_issues on the file, in order: Popen starts
\* the child with the fix request, the session may edit the file, and
\* run_aider returns only when the with statement has waited for the child
\* (when the executable is not found no child is started and nothing is
\* edited).  The "child_exited" step records how the session ended; the
\* return code of run_aider is ignored by every caller
RECURSIVE RunSessions(_, _, _, _)
RunSessions(fs, calls, edits, fail) ==
    IF calls = <<>> THEN fs
    ELSE LET d == fs.dirty \/ (edits /\ EndOf(fail) # "FileNotFoundError") IN
         RunSessions(Log([dirty |-> d,
                          trace |-> Append(fs.trace,
                                           Event("run_aider", file_no, calls[1], d))],
                         "child_exited", EndOf(fail)),
                     Tail(calls), edits, Later(fail))

\* TestRunner.run_tests(config, command_runner, logger) is a static method
\* with three required parameters: the call run_tests() of line 124 passes
\* none and raises TypeError before any test is run
run_tests_without_arguments == "TypeError"

\* GitManager.revert_last_commit: git revert --no-edit HEAD, then sys.exit(1)
revert_last_commit(fs) == Log(fs, "revert", "HEAD")

\* faulty variant: the commit is made before the pre-commit test is looked at
TestsAndCommitFirst(fs, g, commit_ok, sha_ok) ==
    LET tested    == Log(fs, "run_tests", IF g.pre THEN "pass" ELSE "fail")
        committed == commit_changes(tested, "refactor", commit_ok)
    IN  IF ~g.pre THEN [fs |-> committed, end |-> "returned"]
        ELSE IF ~sha_ok
        THEN [fs |-> Log(committed, "get_sha", "failed"), end |-> "CalledProcessError"]
        ELSE [fs |-> Log(Log(committed, "get_sha", "ok"), "run_tests", "TypeError"),
              end |-> "TypeError"]

\* FileProcessor._run_tests_and_commit: the state of the file after it and
\* how the call ends (returned, or the exception that leaves it)
TestsAndCommit(fs, g, commit_ok, sha_ok) ==
    LET tested == Log(fs, "run_tests", IF g.pre THEN "pass" ELSE "fail") IN
    IF ~g.pre THEN [fs |-> tested, end |-> "returned"]
    ELSE LET committed == commit_changes(tested, "refactor", commit_ok) IN
         IF ~sha_ok
         THEN [fs |-> Log(committed, "get_sha", "failed"), end |-> "CalledProcessError"]
         ELSE LET sha  == Log(committed, "get_sha", "ok")
                  post == run_tests_without_arguments
              IN  CASE post = "TypeError" ->
                         [fs |-> Log(sha, "run_tests", "TypeError"), end |-> "TypeError"]
                    [] post = "fail" ->
                         [fs |-> revert_last_commit(Log(sha, "run_tests", "fail")),
                          end |-> "SystemExit"]
                    [] OTHER ->
                         [fs |-> Log(sha, "run_tests", "pass"), end |-> "returned"]

\* the except clauses of process_file: CalledProcessError and RuntimeError
\* are logged and process_file returns; any other exception leaves it
Caught(end) == end \in {"returned", "CalledProcessError", "RuntimeError"}

\* the issue lists the linter returns in a batch run: 0, 1, 3, 5, 6, 10 and
\* 11 findings, and 6 findings without a function field
FileIssueLists ==
    {Patterned(n, 0, 1) : n \in {0, 1, 3, 5, 6, 10, 11}} \cup {Patterned(6, 3, 0)}

\* what the linter call yields: the issue list, or the linter command fails
LintOutcomes ==
    {[kind |-> "issues", issues |-> l] : l \in FileIssueLists}
    \cup {[kind |-> "CalledProcessError", issues |-> <<>>]}

\* what the test command yields for the file: before the commit, and on the
\* committed tree (whether or not the code gets to run it there)
Gates == [pre : BOOLEAN, post : BOOLEAN]

\* the file under processing, as the operators above take it
File == [dirty |-> dirty, trace |-> trace]

\* how main gets to Agent.run: config.yaml is missing (sys.exit(1)), Config
\* raises ValueError on its content (uncaught), Agent.__init__ finds that
\* REPO_PATH is not the top level of a git repository (sys.exit(1)), or the
\* agent is constructed
StartOutcomes == {"ok", "config_missing", "config_invalid", "not_a_repo"}

\* how Agent.run gets to its loop: Ctrl+C during the ten-second pause
\* (sys.exit(0)), the second verify_repo_path fails (sys.exit(1)), or the
\* candidate files are listed
RunOutcomes == {"ok", "KeyboardInterrupt", "not_a_repo"}

\* the exit status of the process for a way of leaving main
ExitStatus(outcome) == IF outcome = "KeyboardInterrupt" THEN 0 ELSE 1

\* main up to the call of Agent.run
main(o) ==
    /\ run_pc = "main"
    /\ trace' = <<Event("main", o, <<>>, FALSE)>>
    /\ run_pc' = IF o = "ok" THEN "run" ELSE "exited"
    /\ exit_status' = IF o = "ok" THEN exit_status ELSE ExitStatus(o)
    /\ UNCHANGED <<config, file_no, gate, file_issues, dirty>>
    /\ UNCHANGED <<grpVars, rateVars, askVars, sessVars>>
    /\ UNCHANGED <<selVars, thrVars>>

\* Agent.run up to its loop over the candidate files
AgentRunStarts(o) ==
    /\ run_pc = "run"
    /\ trace' = <<Event("run", o, <<>>, FALSE)>>
    /\ run_pc' = IF o = "ok" THEN "select" ELSE "exited"
    /\ exit_status' = IF o = "ok" THEN exit_status ELSE ExitStatus(o)
    /\ UNCHANGED <<config, file_no, gate, file_issues, dirty>>
    /\ UNCHANGED <<grpVars, rateVars, askVars, sessVars>>
    /\ UNCHANGED <<selVars, thrVars>>

\* Agent.run takes the next selected file and calls process_file; the file
\* may carry uncommitted changes from before the run
process_file(d) ==
    /\ run_pc = "select"
    /\ file_no < MaxFiles
    /\ file_no' = file_no + 1
    /\ dirty' = d
    /\ trace' = <<Event("process_file", "start", <<>>, d)>>
    /\ file_issues' = <<>>
    /\ gate' = [pre |-> TRUE, post |-> TRUE]
    /\ run_pc' = "formatters"
    /\ UNCHANGED <<config, exit_status>>
    /\ UNCHANGED <<grpVars, rateVars, askVars, sessVars>>
    /\ UNCHANGED <<selVars, thrVars>>

\* FileProcessor._run_code_formatters
_run_code_formatters(a, ca, b, cb) ==
    /\ run_pc = "formatters"
    /\ LET f1 == IF config.autopep8_fix THEN run_autopep8(File, a, ca) ELSE File
           f2 == IF config.enable_black THEN run_black(f1, b, cb) ELSE f1
       IN  /\ dirty' = f2.dirty
           /\ trace' = f2.trace
    /\ run_pc' = "linter"
    /\ UNCHANGED <<config, file_no, gate, file_issues, exit_status>>
    /\ UNCHANGED <<grpVars, rateVars, askVars, sessVars>>
    /\ UNCHANGED <<selVars, thrVars>>

\* FileProcessor._run_linter; a failing linter command ends process_file in
\* its except clause
_run_linter(l) ==
    /\ run_pc = "linter"
    /\ IF l.kind = "issues"
       THEN /\ file_issues' = l.issues
            /\ trace' = Log(File, "run_linter", "issues").trace
            /\ run_pc' = IF l.issues # <<>> THEN "issues" ELSE "tests"
       ELSE /\ file_issues' = <<>>
            /\ trace' = Log(Log(File, "run_linter", l.kind), "finished", "returned").trace
            /\ run_pc' = "select"
    /\ UNCHANGED <<config, file_no, gate, dirty, exit_status>>
    /\ UNCHANGED <<grpVars, rateVars, askVars, sessVars>>
    /\ UNCHANGED <<selVars, thrVars>>

\* FileProcessor._process_issues: the sessions of the chosen strategy, then
\* run_black when enable_black is set
_process_issues(edits, fail, b, cb) ==
    /\ run_pc = "issues"
    /\ LET calls == AllBranchCalls(Branches(Len(file_issues)), file_issues)
           f1    == RunSessions(File, calls, edits, fail)
           f2    == IF config.enable_black THEN run_black(f1, b, cb) ELSE f1
       IN  /\ dirty' = f2.dirty
           /\ trace' = f2.trace
    /\ run_pc' = "tests"
    /\ UNCHANGED <<config, file_no, gate, file_issues, exit_status>>
    /\ UNCHANGED <<grpVars, rateVars, askVars, sessVars>>
    /\ UNCHANGED <<selVars, thrVars>>

\* FileProcessor._run_tests_and_commit and the end of process_file: an
\* exception process_file does not catch leaves Agent.run and main as well,
\* and the interpreter exits with status 1
_run_tests_and_commit(g, commit_ok, sha_ok) ==
    /\ run_pc = "tests"
    /\ gate' = g
    /\ LET r == TestsAndCommit(File, g, commit_ok, sha_ok) IN
       /\ dirty' = r.fs.dirty
       /\ trace' = Log(r.fs, "finished", IF Caught(r.end) THEN "returned" ELSE r.end).trace
       /\ run_pc' = IF Caught(r.end) THEN "select" ELSE "exited"
       /\ exit_status' = IF Caught(r.end) THEN exit_status ELSE 1
    /\ UNCHANGED <<config, file_no, file_issues>>
    /\ UNCHANGED <<grpVars, rateVars, askVars, sessVars>>
    /\ UNCHANGED <<selVars, thrVars>>

\* the loop of Agent.run is exhausted: run and main return
AgentRunReturns ==
    /\ run_pc = "select"
    /\ file_no = MaxFiles
    /\ run_pc' = "exited"
    /\ exit_status' = 0
    /\ UNCHANGED <<config, file_no, gate, file_issues, dirty, trace>>
    /\ UNCHANGED <<grpVars, rateVars, askVars, sessVars>>
    /\ UNCHANGED <<selVars, thrVars>>

\* the process has started and main is about to run
RunInit ==
    /\ pc = "start"
    /\ enable_black = FALSE
    /\ issues = <<>>
    /\ op = "none"
    /\ strategy = <<>>
    /\ grouped = <<>>
    /\ window_size = 0
    /\ aider_calls = <<>>
    /\ commits = <<>>
    /\ now = 0
    /\ api_rate_limit = 1
    /\ api_calls = <<>>
    /\ temp_files = {}
    /\ disk = <<>>
    /\ rate_log = <<>>
    /\ ask_pc = "idle"
    /\ attempt = 0
    /\ effects = <<>>
    /\ raised = NoError
    /\ result = [kind |-> "none"]
    /\ asks = 0
    /\ plan = <<>>
    /\ temp_file_path = <<>>
    /\ sess_pc = "idle"
    /\ session = "none"
    /\ child = NoChild
    /\ elapsed = 0
    /\ reads = <<>>
    /\ capture_output = FALSE
    /\ response = <<>>
    /\ stdin = EmptyPipe
    /\ signals = <<>>
    /\ sess_result = [kind |-> "none"]
    /\ run_pc = "main"
    /\ config \in [autopep8_fix : BOOLEAN, enable_black : BOOLEAN]
    /\ file_no = 0
    /\ gate = [pre |-> TRUE, post |-> TRUE]
    /\ file_issues = <<>>
    /\ dirty = FALSE
    /\ trace = <<>>
    /\ exit_status = -1
    /\ monitoring = FALSE
    /\ monitor_threads = <<>>
    /\ spawns = <<>>
    /\ listed = <<>>
    /\ python_files = <<>>
    /\ cursor = 0
    /\ processed = <<>>
    /\ limits = [line_count_min |-> 1, line_count_max |-> 2]
    /\ threads = NoThreads
    /\ cleanup_log = <<>>

RunNext ==
    \/ \E o \in StartOutcomes : main(o)
    \/ \E o \in RunOutcomes : AgentRunStarts(o)
    \/ \E d \in BOOLEAN : process_file(d)
    \/ \E a, b \in ToolOutcomes, ca, cb \in BOOLEAN : _run_code_formatters(a, ca, b, cb)
    \/ \E l \in LintOutcomes : _run_linter(l)
    \/ \E edits \in BOOLEAN, fail \in SessionFailures, b \in ToolOutcomes, cb \in BOOLEAN :
           _process_issues(edits, fail, b, cb)
    \/ \E g \in Gates, commit_ok, sha_ok \in BOOLEAN : _run_tests_and_commit(g, commit_ok, sha_ok)
    \/ AgentRunReturns

RunSpec == RunInit /\ [][RunNext]_vars

----------------------------------------------------------------------------
(* Claims about process_file and the batch run *)

\* the steps of the current process_file call with the given name
Steps(step) == SelectSeq(trace, LAMBDA e : e.step = step)

\* the current process_file call has ended
FileEnded == trace # <<>> /\ trace[Len(trace)].step = "finished"

\* ... by returning to Agent.run
FileReturned == FileEnded /\ trace[Len(trace)].arg = "returned"

\* the pre-commit test ran and passed / failed
PreTest(verdict) == Steps("run_tests") # <<>> /\ Steps("run_tests")[1].arg = verdict

\* position of the pre-commit test in the trace, 0 if it did not run
TestAt ==
    IF \E i \in 1..Len(trace) : trace[i].step = "run_tests"
    THEN CHOOSE i \in 1..Len(trace) :
             trace[i].step = "run_tests" /\ \A j \in 1..(i - 1) : trace[j].step # "run_tests"
    ELSE 0

\* the commits made after position i of the trace
CommitsAfter(i) == {j \in (i + 1)..Len(trace) : trace[j].step = "commit"}

\* position of the linter call in the trace, 0 if it did not run
LinterAt ==
    IF \E i \in 1..Len(trace) : trace[i].step = "run_linter"
    THEN CHOOSE i \in 1..Len(trace) : trace[i].step = "run_linter"
    ELSE 0

\* no git command of the current process_file call has failed
NoGitFailure ==
    /\ Steps("commit_failed") = <<>>
    /\ \A i \in 1..Len(trace) : trace[i].step = "get_sha" => trace[i].arg = "ok"

\* the fix sessions of the current process_file call left changes in the file
SessionsEdited ==
    /\ Steps("run_aider") # <<>>
    /\ Steps("run_aider")[Len(Steps("run_aider"))].dirty

\* C16: for a file with 1 to 5 issues whose tests pass before and after the
\* commit, process_file makes exactly one session, with one instruction that
\* covers all issue lines, exactly one commit after it, no revert, and returns
\* normally (the session changes the file and no git command fails).
C16_OneSessionOneCommit ==
    (/\ FileEnded
     /\ Len(file_issues) \in 1..5
     /\ gate.pre /\ gate.post
     /\ SessionsEdited
     /\ NoGitFailure)
    => /\ Len(Steps("run_aider")) = 1
       /\ Steps("run_aider")[1].request =
              Message("Address the following issues: ", <<>>, file_issues)
       /\ Cardinality(CommitsAfter(LinterAt)) = 1
       /\ Steps("revert") = <<>>
       /\ FileReturned

\* C17: when the tests pass before the commit and fail after it, process_file
\* reverts exactly once and ends without a second commit (no git command
\* fails).
C17_RevertOnce ==
    (/\ FileEnded
     /\ PreTest("pass")
     /\ CommitsAfter(TestAt) # {}
     /\ ~gate.post
     /\ NoGitFailure)
    => /\ Len(Steps("revert")) = 1
       /\ Cardinality(CommitsAfter(TestAt)) <= 1

\* C18: when the linter returns no issues the file's processing ends there:
\* no session, no test run, no commit, no revert, and Agent.run goes on.
C18_NoIssuesEndsFile ==
    (/\ FileEnded
     /\ LinterAt > 0
     /\ trace[LinterAt].arg = "issues"
     /\ file_issues = <<>>)
    => /\ Steps("run_aider") = <<>>
       /\ Steps("run_tests") = <<>>
       /\ CommitsAfter(LinterAt) = {}
       /\ Steps("revert") = <<>>
       /\ FileReturned

\* C19: when the pre-commit test fails, _run_tests_and_commit makes no commit,
\* runs no second test, reverts nothing and leaves the file as it was
\* (uncommitted changes stay uncommitted); process_file returns and Agent.run
\* goes on with the next file.
C19_FailedGateCommitsNothing ==
    (FileEnded /\ PreTest("fail"))
    => /\ CommitsAfter(TestAt) = {}
       /\ Len(Steps("run_tests")) = 1
       /\ Steps("revert") = <<>>
       /\ dirty = trace[TestAt - 1].dirty
       /\ FileReturned
       /\ exit_status \in {-1, 0}
       /\ run_pc = "exited" => file_no = MaxFiles

\* C19 witness: the second file of a batch has ended after sessions edited it
\* and its pre-commit test failed; its changes are uncommitted
C19_Witness ==
    /\ FileEnded
    /\ PreTest("fail")
    /\ Steps("run_aider") # <<>>
    /\ dirty
    /\ file_no = 2
    /\ run_pc = "select"

\* C20: whatever fails in one file, process_file is still started for every
\* later selected file: the run never ends before the last file was started.
C20_BatchNeverAborted ==
    (run_pc = "exited" /\ file_no > 0) => file_no = MaxFiles

\* the run ended at startup: main or Agent.run left before the loop
StartupFailure ==
    /\ file_no = 0
    /\ Len(trace) = 1
    /\ \/ trace[1].step = "main" /\ trace[1].arg \in StartOutcomes \ {"ok"}
       \/ trace[1].step = "run" /\ trace[1].arg = "not_a_repo"

\* C21: the process exits with a non-zero status only when loading the
\* configuration or validating the repository failed, and then no file was
\* processed; every other run exits with status zero.
C21_ExitStatus ==
    run_pc = "exited"
    => /\ exit_status # 0 => StartupFailure
       /\ StartupFailure => exit_status # 0

\* the place of step i of the trace in the order of the claim: 1 formatters
\* (with their commits), 2 linter, 3 fix sessions, 4 pre-commit test, 5 commit,
\* 6 post-commit test, 7 revert
Phase(i) ==
    LET e == trace[i] IN
    CASE e.step = "process_file" -> 0
      [] e.step \in {"autopep8", "black"} -> 1
      [] e.step \in {"commit", "commit_failed"} /\ e.arg \in {"autopep8", "black"} -> 1
      [] e.step = "run_linter" -> 2
      [] e.step \in {"run_aider", "child_exited"} -> 3
      [] e.step = "run_tests" /\ i = TestAt -> 4
      [] e.step \in {"commit", "commit_failed", "get_sha"} -> 5
      [] e.step = "run_tests" -> 6
      [] e.step = "revert" -> 7
      [] OTHER -> 8

\* C26: the steps of one process_file call occur in the order formatters,
\* linter, fix sessions, pre-commit test, commit, post-commit test, revert: no
\* step comes after a step of a later place; the commit is made only after a
\* passing pre-commit test, the post-commit test only after a passing
\* pre-commit test, the revert only after a failing post-commit test.
C26_StepsInOrder ==
    /\ \A i, j \in 1..Len(trace) : i < j => Phase(i) <= Phase(j)
    /\ \A i \in 1..Len(trace) :
          /\ Phase(i) \in {5, 6} => (TestAt > 0 /\ TestAt < i /\ trace[TestAt].arg = "pass")
          /\ Phase(i) = 7 => \E j \in 1..(i - 1) : Phase(j) = 6 /\ trace[j].arg = "fail"

\* the positions of the fix sessions in the trace
SessionsAt == {i \in 1..Len(trace) : trace[i].step = "run_aider"}

\* C27: once a fix session of the file has started, a commit of the file is
\* made only after a test run that passed and that came after every fix
\* session made so far.
C27_NoUnverifiedCommit ==
    \A i \in 1..Len(trace) :
        (trace[i].step = "commit" /\ \E k \in SessionsAt : k < i)
        => \E t \in 1..(i - 1) :
              /\ trace[t].step = "run_tests"
              /\ trace[t].arg = "pass"
              /\ \A k \in SessionsAt : k < i => k < t

\* run_aider returns only after its child has ended: the loop is left when
\* readline gives "" and poll() reports the exit, and an exception leaves the
\* `with` block only after wait() has returned (holds under SessSpec)
FixReturnsAfterExit ==
    (session = "fix" /\ sess_pc = "returned") => ~ChildAlive

\* the groups the strategy for this number of issues produces, in its order
GroupsOf(iss) ==
    IF Len(iss) > 10 THEN group_issues_by_type(iss)
    ELSE IF Len(iss) > 5 THEN group_issues_by_function(iss)
    ELSE <<[key |-> <<>>, members |-> iss]>>

NonEmptyGroups(iss) == SelectSeq(GroupsOf(iss), LAMBDA g : g.members # <<>>)

\* the assistant children alive after step i of the trace
AliveAfter(i) ==
    Cardinality({k \in 1..i : trace[k].step = "run_aider"})
    - Cardinality({k \in 1..i : trace[k].step = "child_exited"})

\* _process_issues has run for the current file
IssuesProcessed == Steps("run_aider") # <<>> \/ (LinterAt > 0 /\ run_pc # "issues")

\* C28: the fix sessions of a file are one per non-empty group, in the order
\* of the grouping, each with the lines of its group and against this file; a
\* session starts only when no earlier child is alive, so at most one child
\* is alive at any step.
C28_SessionsSerialized ==
    /\ \A i \in 1..Len(trace) :
          /\ AliveAfter(i) \in {0, 1}
          /\ trace[i].step = "run_aider" => (AliveAfter(i - 1) = 0 /\ trace[i].arg = file_no)
    /\ IssuesProcessed
       => LET sessions == Steps("run_aider")
              groups   == NonEmptyGroups(file_issues)
          IN  /\ Len(sessions) = Len(groups)
              /\ \A i \in 1..Len(sessions) :
                    /\ sessions[i].request.key = groups[i].key
                    /\ sessions[i].request.body = Join(groups[i].members, Newline)

\* C28 witness: eleven issues were fixed in more than one session, and the
\* last child has ended
C28_Witness ==
    /\ run_pc = "tests"
    /\ Len(file_issues) = 11
    /\ Len(Steps("run_aider")) >= 2
    /\ AliveAfter(Len(trace)) = 0

\* revert_last_commit is never reached: its only caller follows the
\* post-commit run_tests() call, which raises TypeError (holds under RunSpec)
RevertNeverRuns == \A i \in 1..Len(trace) : trace[i].step # "revert"

\* the sessions of the file that returned a non-zero code
FailedSessions ==
    {i \in 1..Len(trace) : trace[i].step = "child_exited" /\ ReturnCode(trace[i].arg) # 0}

\* C38: when a fix session of the file returns a non-zero code, the sessions
\* of all remaining groups are still run, in order, and the test gate still
\* runs before process_file ends.
C38_FailedSessionAbandoned ==
    FailedSessions # {}
    => LET sessions == Steps("run_aider")
           groups   == NonEmptyGroups(file_issues)
       IN  /\ Len(sessions) = Len(groups)
           /\ \A i \in 1..Len(sessions) : sessions[i].request.key = groups[i].key
           /\ \A i \in FailedSessions : i < Len(trace) =>
                  trace[i + 1].step \in {"run_aider", "black", "run_tests"}
           /\ FileEnded => TestAt > 0

\* C38 witness: the first of several sessions failed, the others ran after
\* it, and the test gate ran
C38_Witness ==
    /\ \E i \in FailedSessions : \E k \in SessionsAt : k > i
    /\ Len(Steps("run_aider")) > 1
    /\ TestAt > 0
    /\ FileEnded

FunctionIssuesGetASession ==
    (/\ TestAt > 0
     /\ \E i \in 1..Len(file_issues) : HasFunctionField(file_issues[i]))
    => \E k \in SessionsAt : k < TestAt

\* C24: a temp file exists only while the attempt that created it is running:
\* once that attempt of ask_question has returned or raised, its file is gone
\* from the disk.
C24_TempFileGoneAfterAttempt ==
    \A f \in DOMAIN disk :
        /\ f = <<asks, attempt>>
        /\ ask_pc \in {"session", "finally"}

----------------------------------------------------------------------------
(* Claims about the child processes of one interrogator (InterrogatorSpec) *)

\* the children started in the 60 seconds that end with the start of child i
SpawnsInWindow(i) ==
    {j \in 1..Len(spawns) :
        spawns[i].t - WindowSeconds < spawns[j].t /\ spawns[j].t <= spawns[i].t}

\* C23: every assistant child, of a fix session as of an ask session, is
\* started only after a successful rate check, and no 60-second window holds
\* more starts than api_rate_limit.
C23_RateCapCoversEverySpawn ==
    \A i \in 1..Len(spawns) :
        /\ spawns[i].checked
        /\ Cardinality(SpawnsInWindow(i)) <= api_rate_limit

\* the caller has made all its calls on the interrogator and all have ended
InterrogatorDone ==
    /\ ask_pc = "idle"
    /\ asks = MaxAsks
    /\ Len(FixSpawns) = MaxFixes

\* C25: no monitor thread is leaked: once the interrogator has finished its
\* work, every monitor thread it started has left its loop and been joined.
C25_MonitorThreadStopped ==
    InterrogatorDone
    => \A i \in 1..Len(monitor_threads) : monitor_threads[i] = "joined"

----------------------------------------------------------------------------
(* Agent.run: which candidate files reach process_file *)

MaxCandidates == 2   \* candidate files of one run
MaxLines      == 5   \* longest candidate file, in lines

\* file names
PyA    == <<"a", ".", "p", "y">>                           \* "a.py"
TestA  == <<"t", "e", "s", "t", "_", "a", ".", "p", "y">>  \* "test_a.py"
InitPy == <<"_", "_", "i", "n", "i", "t", "_", "_", ".", "p", "y">>  \* "__init__.py"
Dunder == <<"a", "_", "_", "b", ".", "p", "y">>            \* "a__b.py"
ATest  == <<"a", "t", "e", "s", "t", "_", ".", "p", "y">>  \* "atest_.py"

\* directory names
TestsDir     == <<"t", "e", "s", "t", "s">>                  \* "tests"
VenvDir      == <<"v", "e", "n", "v">>                        \* "venv"
GitDir       == <<".", "g", "i", "t">>                        \* ".git"
BenchmarkDir == <<"b", "e", "n", "c", "h", "m", "a", "r", "k">>  \* "benchmark"
SrcDir       == <<"s", "r", "c">>                             \* "src"
MyTestsDir   == <<"m", "y", "t", "e", "s", "t", "s">>        \* "mytests"

TestPrefix == <<"t", "e", "s", "t", "_">>   \* "test_"
DoubleUnderscore == <<"_", "_">>            \* "__"

\* config.venv_dir of the run
venv_dir == VenvDir

\* excluded_dirs = {self.config.venv_dir, ".git", "benchmark", "tests"}
excluded_dirs == {venv_dir, GitDir, BenchmarkDir, TestsDir}

\* str.startswith
StartsWith(t, prefix) ==
    Len(t) >= Len(prefix) /\ SubSeq(t, 1, Len(prefix)) = prefix

\* Path.name: the last component of the path
Name(file) == file.parts[Len(file.parts)]

\* any(excluded_dir in file.parts for excluded_dir in excluded_dirs)
InExcludedParts(file) ==
    \E d \in excluded_dirs : \E i \in 1..Len(file.parts) : file.parts[i] = d

\* the continue statements of the loop body: the file is a test file, has
\* "__" in its name, is longer than line_count_max, is empty, or is shorter
\* than line_count_min
Skips(file, lim) ==
    \/ StartsWith(Name(file), TestPrefix)
    \/ Contains(Name(file), DoubleUnderscore)
    \/ file.lines > lim.line_count_max
    \/ file.lines = 0
    \/ file.lines < lim.line_count_min

\* the candidate files explored: a.py of every length, every other name, and
\* a.py below every directory; rawgencount gives the length
CandidateFiles ==
    {[parts |-> <<PyA>>, lines |-> n] : n \in 0..MaxLines}
    \cup {[parts |-> <<nm>>, lines |-> 2] : nm \in {TestA, InitPy, Dunder, ATest}}
    \cup {[parts |-> <<d, PyA>>, lines |-> 2] :
             d \in {TestsDir, VenvDir, GitDir, BenchmarkDir, SrcDir, MyTestsDir}}
    \cup {[parts |-> <<SrcDir, TestsDir, PyA>>, lines |-> 2]}

\* LINE_COUNT_MIN and LINE_COUNT_MAX as the schema admits them (min < max)
LineLimits ==
    {[line_count_min |-> 0, line_count_max |-> 2],
     [line_count_min |-> 1, line_count_max |-> 2],
     [line_count_min |-> 2, line_count_max |-> 4]}

\* how a process_file call ends for Agent.run: it returns, or the TypeError
\* of the post-commit run_tests() call leaves it
ProcessFileEnds == {"returned", "TypeError"}

\* python_files = [file for file in python_files if not any(...)]
FilterExcludedDirs ==
    /\ run_pc = "filter"
    /\ python_files' = SelectSeq(python_files, LAMBDA f : ~InExcludedParts(f))
    /\ run_pc' = "select"
    /\ UNCHANGED <<listed, cursor, processed, limits>>
    /\ UNCHANGED thrVars
    /\ UNCHANGED <<config, file_no, gate, file_issues, dirty, trace, exit_status>>
    /\ UNCHANGED <<grpVars, rateVars, askVars, sessVars>>

\* one iteration of the loop that ends in a continue statement
SkipFile ==
    /\ run_pc = "select"
    /\ cursor < Len(python_files)
    /\ Skips(python_files[cursor + 1], limits)
    /\ cursor' = cursor + 1
    /\ UNCHANGED <<listed, python_files, processed, limits>>
    /\ UNCHANGED thrVars
    /\ UNCHANGED runVars
    /\ UNCHANGED <<grpVars, rateVars, askVars, sessVars>>

\* one iteration of the loop that calls self.file_processor.process_file(file);
\* an exception that leaves process_file leaves Agent.run and main
CallProcessFile(end) ==
    /\ run_pc = "select"
    /\ cursor < Len(python_files)
    /\ ~Skips(python_files[cursor + 1], limits)
    /\ cursor' = cursor + 1
    /\ processed' = Append(processed, python_files[cursor + 1])
    /\ run_pc' = IF end = "returned" THEN "select" ELSE "exited"
    /\ exit_status' = IF end = "returned" THEN exit_status ELSE 1
    /\ UNCHANGED <<listed, python_files, limits>>
    /\ UNCHANGED thrVars
    /\ UNCHANGED <<config, file_no, gate, file_issues, dirty, trace>>
    /\ UNCHANGED <<grpVars, rateVars, askVars, sessVars>>

\* the loop is exhausted: Agent.run and main return
LoopExhausted ==
    /\ run_pc = "select"
    /\ cursor = Len(python_files)
    /\ run_pc' = "exited"
    /\ exit_status' = 0
    /\ UNCHANGED <<selVars, thrVars>>
    /\ UNCHANGED <<config, file_no, gate, file_issues, dirty, trace>>
    /\ UNCHANGED <<grpVars, rateVars, askVars, sessVars>>

\* Agent.run has listed its candidate files (the --file argument, or the
\* tracked .py files)
SelectInit ==
    /\ pc = "start"
    /\ enable_black = FALSE
    /\ issues = <<>>
    /\ op = "none"
    /\ strategy = <<>>
    /\ grouped = <<>>
    /\ window_size = 0
    /\ aider_calls = <<>>
    /\ commits = <<>>
    /\ now = 0
    /\ api_rate_limit = 1
    /\ api_calls = <<>>
    /\ temp_files = {}
    /\ disk = <<>>
    /\ rate_log = <<>>
    /\ ask_pc = "idle"
    /\ attempt = 0
    /\ effects = <<>>
    /\ raised = NoError
    /\ result = [kind |-> "none"]
    /\ asks = 0
    /\ plan = <<>>
    /\ temp_file_path = <<>>
    /\ sess_pc = "idle"
    /\ session = "none"
    /\ child = NoChild
    /\ elapsed = 0
    /\ reads = <<>>
    /\ capture_output = FALSE
    /\ response = <<>>
    /\ stdin = EmptyPipe
    /\ signals = <<>>
    /\ sess_result = [kind |-> "none"]
    /\ run_pc = "filter"
    /\ config = [autopep8_fix |-> FALSE, enable_black |-> FALSE]
    /\ file_no = 0
    /\ gate = [pre |-> TRUE, post |-> TRUE]
    /\ file_issues = <<>>
    /\ dirty = FALSE
    /\ trace = <<>>
    /\ exit_status = -1
    /\ monitoring = FALSE
    /\ monitor_threads = <<>>
    /\ spawns = <<>>
    /\ listed \in UNION {[1..k -> CandidateFiles] : k \in 0..MaxCandidates}
    /\ python_files = listed
    /\ cursor = 0
    /\ processed = <<>>
    /\ limits \in LineLimits
    /\ threads = NoThreads
    /\ cleanup_log = <<>>

SelectNext ==
    \/ FilterExcludedDirs
    \/ SkipFile
    \/ \E end \in ProcessFileEnds : CallProcessFile(end)
    \/ LoopExhausted

SelectSpec == SelectInit /\ [][SelectNext]_vars

----------------------------------------------------------------------------
(* Claims about the file loop of Agent.run (under SelectSpec) *)

\* the file lies below a directory with an excluded name
InExcludedDir(file) ==
    \E i \in 1..(Len(file.parts) - 1) :
        file.parts[i] \in {VenvDir, GitDir, BenchmarkDir, TestsDir}

\* the files the claim selects
Eligible(file) ==
    /\ file.lines > 0
    /\ limits.line_count_min <= file.lines
    /\ file.lines <= limits.line_count_max
    /\ ~InExcludedDir(file)
    /\ ~StartsWith(Name(file), TestPrefix)
    /\ ~Contains(Name(file), DoubleUnderscore)

IsPrefix(a, b) == Len(a) <= Len(b) /\ SubSeq(b, 1, Len(a)) = a

\* C22: Agent.run calls process_file exactly once, in the listed order, for
\* each candidate file that is not empty, has between line_count_min and
\* line_count_max lines, is not in an excluded directory, is not named test_*
\* and has no "__" in its name, and for no other file.
C22_ProcessesEligibleFiles ==
    /\ IsPrefix(processed, SelectSeq(listed, Eligible))
    /\ run_pc = "exited" => processed = SelectSeq(listed, Eligible)

====
